---- MODULE Spec2Model ----
(***************************************************************************)
(* Quayside vessel tracker: the tracked store (myVessels), the live AIS    *)
(* cache (aisVessels), the fused display set (allVessels), the viewport    *)
(* bounds and the AIS WebSocket of static/js/auth.js, with the map glue    *)
(* of the map module (handleMapMove, the map 'load' handler).              *)
(*                                                                         *)
(* A JavaScript Map is a sequence of entries [k, v] in insertion order.    *)
(* A key is a typed MMSI: the string "n" and the number n are different    *)
(* keys of a Map.  Every JavaScript function is an operator from a state   *)
(* record to a state record, so that a handler that calls several          *)
(* functions is the composition of their operators.                        *)
(***************************************************************************)
EXTENDS Integers, Sequences, FiniteSets, TLC

VARIABLES
    myVessels,              \* Map: tracked vessels
    aisVessels,             \* Map: live AIS vessels
    allVessels,             \* Map: vessels shown on the map
    showAllVessels,         \* display mode flag
    currentViewportBounds,  \* Null or a rectangle
    authToken,              \* TRUE when a session token is held
    pending,                \* requests awaiting their response
    sockets,                \* the AIS WebSockets created and not yet dropped
    aisWebSocket,           \* index in sockets of the current one, NoSocket if null
    aisReconnectTimers,     \* pending 5 s reconnect timeouts
    autoStartTimer,         \* the 2 s auto-start timeout is still pending
    activeFilters,          \* Set: the filter chips that are on
    filterTimeout,          \* the handle toggleFilter keeps: NoHandle if null
    timeouts,               \* the debounce callbacks setTimeout has registered, pending
    mapMoveTimeout,         \* the handle handleMapMove keeps: NoHandle if null
    lastBounds,             \* Null or the bounds handleMapMove last propagated
    wsSockets,              \* the WebSockets of the secondary client, not yet dropped
    ws,                     \* index in wsSockets of the current one, NoSocket before the first
    wsConnected,            \* flag of the secondary client
    reconnectAttempts,      \* counter of the secondary client
    wsReconnectTimers,      \* pending 3 s reconnect timeouts of the secondary client
    wsTerminal,             \* 'Max reconnection attempts reached' has been reported
    now,                    \* Date.now(), in ms
    lastListUpdateTime,     \* when maybeUpdateVesselList last refreshed the sidebar list
    admissions              \* stream updates admitted since the AIS socket last opened

vars == <<myVessels, aisVessels, allVessels, showAllVessels,
          currentViewportBounds, authToken, pending, sockets, aisWebSocket,
          aisReconnectTimers, autoStartTimer, activeFilters, filterTimeout,
          wsSockets, ws, wsConnected,
          reconnectAttempts, wsReconnectTimers, wsTerminal,
          now, lastListUpdateTime, admissions,
          timeouts, mapMoveTimeout, lastBounds>>

----------------------------------------------------------------------------
(* Bounds of the model *)

MaxSockets == 2     \* AIS WebSockets created in one run
MaxPending == 1     \* requests in flight at one time
MaxTimers == 1      \* reconnect timeouts pending at one time
MaxAdmissions == 21 \* stream updates counted after one opening of the AIS socket
Epoch == 3000       \* Date.now() when the page has loaded
TickMs == 1000      \* the time that passes in one step of the clock
MaxNow == 7000      \* Date.now() at the end of a run
MaxTimeouts == 3    \* debounce callbacks pending at one time
DebounceTickMs == 50    \* one step of the clock while the debounces are watched
DebounceEnd == 3700     \* Date.now() when the debounces are no longer watched

(* Values *)

Undefined == 0      \* an absent property of a record
NoSocket == 0       \* aisWebSocket = null
Null == [minLat |-> 1, maxLat |-> 0, minLon |-> 1, maxLon |-> 0, null |-> TRUE]

Mmsis == {1, 2}
Str(n) == [t |-> "string", n |-> n]      \* the MMSI as a 9-digit string
Num(n) == [t |-> "number", n |-> n]      \* the MMSI as a number
\* An MMSI reaches the page as a string or as a number.  The feed and the backend
\* deliver vessel 1 as a string and vessel 2 as a number, so that one run holds a
\* vessel of each representation.
TypedMmsis == {Str(1), Num(2)}
parseInt(key) == Num(key.n)
Padded(n) == [t |-> "padded", n |-> n]   \* the MMSI as a string with blanks around it
NoMmsi == [t |-> "undefined", n |-> 0]   \* the mmsi of a record without one
Blank == [t |-> "string", n |-> 0]       \* ''
String(key) == IF key.t = "number" THEN Str(key.n) ELSE key
Trim(key) == IF key.t = "padded" THEN Str(key.n) ELSE key

Positions == {<<0, 0>>, <<1, 1>>}        \* <<latitude, longitude>> of the records
Speeds == {15}
Ids == {7}
AddedAts == {1}

Rect(a, b, c, d) == [minLat |-> a, maxLat |-> b, minLon |-> c, maxLon |-> d, null |-> FALSE]
\* the views of the map: around both positions, around one of them, and two
\* that miss each position by one edge only
ViewRects == {Rect(0, 1, 0, 1), Rect(0, 0, 0, 0), Rect(1, 1, 1, 1),
              Rect(0, 0, 1, 1), Rect(1, 1, 0, 0)}

(* A VesselRecord as the stream and the bounding-box query deliver it. *)
VesselRecords ==
    {[mmsi |-> m, latitude |-> p[1], longitude |-> p[2], speed |-> sp,
      id |-> Undefined, added_at |-> Undefined] :
        m \in TypedMmsis, p \in Positions, sp \in Speeds}

(* A row of /api/vessels/my-vessels. *)
SavedPositions == {<<1, 1>>}
TrackedRows ==
    {[mmsi |-> m, latitude |-> p[1], longitude |-> p[2], id |-> i, added_at |-> a] :
        m \in TypedMmsis, p \in SavedPositions, i \in Ids, a \in AddedAts}

----------------------------------------------------------------------------
(* JavaScript Map *)

MapKeys(m) == {m[i].k : i \in DOMAIN m}
MapHas(m, key) == \E i \in DOMAIN m : m[i].k = key
MapGet(m, key) == m[CHOOSE i \in DOMAIN m : m[i].k = key].v
MapSet(m, key, val) ==
    IF MapHas(m, key)
    THEN [i \in DOMAIN m |-> IF m[i].k = key THEN [k |-> key, v |-> val] ELSE m[i]]
    ELSE Append(m, [k |-> key, v |-> val])
MapDelete(m, key) == SelectSeq(m, LAMBDA e : e.k # key)
MapSize(m) == Len(m)
EmptyMap == << >>

\* new Map([...a, ...b])
RECURSIVE MapFromEntries(_, _)
MapFromEntries(acc, entries) ==
    IF entries = << >> THEN acc
    ELSE MapFromEntries(MapSet(acc, Head(entries).k, Head(entries).v), Tail(entries))
MapSpread(a, b) == MapFromEntries(EmptyMap, a \o b)

\* the numbers the keys of a Map denote
Denoted(m) == {key.n : key \in MapKeys(m)}

----------------------------------------------------------------------------
(* The state as one record *)

S == [myVessels |-> myVessels, aisVessels |-> aisVessels, allVessels |-> allVessels,
      showAllVessels |-> showAllVessels,
      currentViewportBounds |-> currentViewportBounds, authToken |-> authToken,
      pending |-> pending, sockets |-> sockets, aisWebSocket |-> aisWebSocket,
      aisReconnectTimers |-> aisReconnectTimers, autoStartTimer |-> autoStartTimer,
      activeFilters |-> activeFilters, filterTimeout |-> filterTimeout,
      wsSockets |-> wsSockets, ws |-> ws, wsConnected |-> wsConnected,
      reconnectAttempts |-> reconnectAttempts,
      wsReconnectTimers |-> wsReconnectTimers, wsTerminal |-> wsTerminal,
      now |-> now, lastListUpdateTime |-> lastListUpdateTime,
      admissions |-> admissions,
      timeouts |-> timeouts, mapMoveTimeout |-> mapMoveTimeout,
      lastBounds |-> lastBounds]

Becomes(t) ==
    /\ myVessels' = t.myVessels
    /\ aisVessels' = t.aisVessels
    /\ allVessels' = t.allVessels
    /\ showAllVessels' = t.showAllVessels
    /\ currentViewportBounds' = t.currentViewportBounds
    /\ authToken' = t.authToken
    /\ pending' = t.pending
    /\ sockets' = t.sockets
    /\ aisWebSocket' = t.aisWebSocket
    /\ aisReconnectTimers' = t.aisReconnectTimers
    /\ autoStartTimer' = t.autoStartTimer
    /\ activeFilters' = t.activeFilters
    /\ filterTimeout' = t.filterTimeout
    /\ wsSockets' = t.wsSockets
    /\ ws' = t.ws
    /\ wsConnected' = t.wsConnected
    /\ reconnectAttempts' = t.reconnectAttempts
    /\ wsReconnectTimers' = t.wsReconnectTimers
    /\ wsTerminal' = t.wsTerminal
    /\ now' = t.now
    /\ lastListUpdateTime' = t.lastListUpdateTime
    /\ admissions' = t.admissions
    /\ timeouts' = t.timeouts
    /\ mapMoveTimeout' = t.mapMoveTimeout
    /\ lastBounds' = t.lastBounds

\* a request awaiting its response; vessel and mmsi hold zero or one value
Request(op) == [op |-> op, rect |-> Null, vessel |-> << >>,
                alias |-> FALSE, mmsi |-> << >>, id |-> Undefined, fallback |-> FALSE]
InFlight(s, op) == \E r \in s.pending : r.op = op

\* aisVessels no longer holds, under one of keys, the object a pending track
\* request found there
Touch(reqs, keys) ==
    {IF r.op = "track" /\ r.vessel[1].mmsi \in keys THEN [r EXCEPT !.alias = FALSE] ELSE r :
        r \in reqs}

\* what the model can hold
WithinModel(t) ==
    /\ Len(t.sockets) <= MaxSockets
    /\ Cardinality(t.pending) <= MaxPending
    /\ t.aisReconnectTimers <= MaxTimers
    /\ Len(t.wsSockets) <= MaxSockets
    /\ t.wsReconnectTimers <= MaxTimers
    /\ t.admissions <= MaxAdmissions
    /\ t.now <= MaxNow
    /\ Cardinality(t.timeouts) <= MaxTimeouts

----------------------------------------------------------------------------
(* setTimeout and clearTimeout, for the two debounces *)

NoHandle == 0

\* the handle the next setTimeout returns: one that no pending callback has and
\* that none of the variables in held keeps
NextHandle(s, held) ==
    LET used == {t.id : t \in s.timeouts} \cup held
    IN  CHOOSE n \in 1..(Cardinality(used) + 1) :
            n \notin used /\ \A m \in 1..(n - 1) : m \in used

setTimeout(s, fn, id, delay) ==
    [s EXCEPT !.timeouts = @ \cup {[fn |-> fn, id |-> id, due |-> s.now + delay]}]

\* clearTimeout(id); of null, or of a callback that has run, it does nothing
clearTimeout(s, id) == [s EXCEPT !.timeouts = {t \in @ : t.id # id}]

\* the callbacks of fn that are pending
Pending(s, fn) == {t \in s.timeouts : t.fn = fn}

----------------------------------------------------------------------------
(* Sidebar list *)

listUpdateThrottleMs == 2000

\* maybeUpdateVesselList without its throttle
maybeUpdateVesselListUnthrottled(s, force) == [s EXCEPT !.lastListUpdateTime = s.now]

\* maybeUpdateVesselList(force): updateVesselList() follows the assignment
maybeUpdateVesselList(s, force) ==
    IF ~force /\ s.now - s.lastListUpdateTime < listUpdateThrottleMs THEN s
    ELSE [s EXCEPT !.lastListUpdateTime = s.now]

\* refreshMapWithFilters; applyFilters(true) ends with maybeUpdateVesselList(true)
refreshMapWithFilters(s) ==
    IF s.activeFilters # {} THEN maybeUpdateVesselList(s, TRUE)
    ELSE maybeUpdateVesselList(s, FALSE)

\* the list has just been refreshed, and no time passes
InitSidebar ==
    /\ now = Epoch
    /\ lastListUpdateTime = Epoch

----------------------------------------------------------------------------
(* Viewport *)

\* a coordinate that is missing or is not a number; >= and <= are false of it
NaN == -1
Ge(a, b) == a # NaN /\ b # NaN /\ a >= b
Le(a, b) == a # NaN /\ b # NaN /\ a <= b

isWithinBounds(vessel, bounds) ==
    IF bounds.null THEN TRUE
    ELSE /\ Ge(vessel.latitude, bounds.minLat)
         /\ Le(vessel.latitude, bounds.maxLat)
         /\ Ge(vessel.longitude, bounds.minLon)
         /\ Le(vessel.longitude, bounds.maxLon)

\* updateViewportBounds rebuilding the display from the cache alone
updateViewportBoundsFromCacheOnly(s, bounds) ==
    LET s1 == [s EXCEPT !.currentViewportBounds = bounds]
        kept == SelectSeq(s.aisVessels, LAMBDA e : isWithinBounds(e.v, bounds))
    IN  IF bounds.null \/ MapSize(s.aisVessels) = 0 THEN s1
        ELSE [s1 EXCEPT !.aisVessels = kept, !.allVessels = kept,
                        !.pending = Touch(@, MapKeys(s.aisVessels) \ MapKeys(kept))]

updateViewportBounds(s, bounds) ==
    LET s1 == [s EXCEPT !.currentViewportBounds = bounds]
        kept == SelectSeq(s.aisVessels, LAMBDA e : isWithinBounds(e.v, bounds))
        removed == Len(s.aisVessels) - Len(kept)
        s2 == [s1 EXCEPT !.aisVessels = kept,
                         !.pending = Touch(@, MapKeys(s.aisVessels) \ MapKeys(kept))]
    IN  IF bounds.null \/ MapSize(s.aisVessels) = 0 THEN s1
        ELSE IF removed > 0 /\ s.showAllVessels
             THEN refreshMapWithFilters(
                    [s2 EXCEPT !.allVessels = MapSpread(s2.myVessels, s2.aisVessels)])
             ELSE s2

----------------------------------------------------------------------------
(* AIS WebSocket *)

NewSocket == [readyState |-> "CONNECTING", connectionTimeout |-> TRUE]

IsOpen(s) ==
    /\ s.aisWebSocket # NoSocket
    /\ s.sockets[s.aisWebSocket].readyState = "OPEN"

\* where new WebSocket() puts its socket: a socket that is CLOSED has no event
\* and no timeout left and is dropped, so its place is taken
Place(socks) ==
    IF \E i \in DOMAIN socks : socks[i].readyState = "CLOSED"
    THEN CHOOSE i \in DOMAIN socks :
            /\ socks[i].readyState = "CLOSED"
            /\ \A j \in DOMAIN socks : socks[j].readyState = "CLOSED" => i <= j
    ELSE Len(socks) + 1

connectToAISStream(s) ==
    LET i == Place(s.sockets)
    IN  IF IsOpen(s) THEN s
        ELSE [s EXCEPT !.sockets = IF i \in DOMAIN @ THEN [@ EXCEPT ![i] = NewSocket]
                                    ELSE Append(@, NewSocket),
                       !.aisWebSocket = i]

ensureAllVesselsMode(s) ==
    LET s1 == [s EXCEPT !.showAllVessels = TRUE]
    IN  IF ~IsOpen(s1) THEN connectToAISStream(s1) ELSE s1

\* the 'open' event of socket i
onopen(s, i) ==
    [s EXCEPT !.sockets[i].readyState = "OPEN",
              !.sockets[i].connectionTimeout = FALSE]

\* onclose scheduling no reconnect
oncloseWithoutReconnect(s, i) ==
    [s EXCEPT !.sockets[i].readyState = "CLOSED",
              !.sockets[i].connectionTimeout = FALSE]

\* the 'close' event of socket i
onclose(s, i) ==
    LET s1 == [s EXCEPT !.sockets[i].readyState = "CLOSED",
                        !.sockets[i].connectionTimeout = FALSE]
    IN  IF s.showAllVessels
        THEN [s1 EXCEPT !.aisReconnectTimers = @ + 1]
        ELSE s1

\* WebSocket.close()
close(sock) ==
    IF sock.readyState \in {"CONNECTING", "OPEN"}
    THEN [sock EXCEPT !.readyState = "CLOSING"]
    ELSE sock

\* the 10 s timeout set when socket i was created
connectionTimeout(s, i) ==
    LET s1 == [s EXCEPT !.sockets[i].connectionTimeout = FALSE]
    IN  IF s1.sockets[s1.aisWebSocket].readyState # "OPEN"
        THEN [s1 EXCEPT !.sockets[s1.aisWebSocket] = close(@)]
        ELSE s1

\* the error toasts the 10 s timeout of socket i shows
connectionTimeoutToasts(s, i) ==
    IF s.sockets[s.aisWebSocket].readyState # "OPEN" THEN 1 ELSE 0

\* the 'error' event of socket i
onerror(s, i) == [s EXCEPT !.sockets[i].connectionTimeout = FALSE]

\* the error toasts the 'error' event of socket i shows
onerrorToasts(s, i) == IF s.showAllVessels THEN 1 ELSE 0

\* the 5 s reconnect timeout set by onclose
reconnectTimeout(s) ==
    connectToAISStream([s EXCEPT !.aisReconnectTimers = @ - 1])

----------------------------------------------------------------------------
(* Stream ingestion *)

FirstBatch == 20
EveryNth == 10

\* { ...existing, ...vessel }: a property vessel has overrides that of existing;
\* every record has mmsi, latitude and longitude
Or(own, other) == IF own # Undefined THEN own ELSE other
Spread(existing, vessel) ==
    [mmsi |-> vessel.mmsi, latitude |-> vessel.latitude, longitude |-> vessel.longitude,
     speed |-> Or(vessel.speed, existing.speed),
     id |-> Or(vessel.id, existing.id),
     added_at |-> Or(vessel.added_at, existing.added_at)]

\* onmessage does not return at the viewport test: vessel reaches aisVessels
admits(s, vessel) ==
    \/ s.currentViewportBounds.null
    \/ MapHas(s.myVessels, vessel.mmsi)
    \/ isWithinBounds(vessel, s.currentViewportBounds)

\* shouldUpdateMap, computed after aisVessels.set(vessel.mmsi, vessel)
shouldUpdateMap(s, vessel) ==
    LET ais == MapSet(s.aisVessels, vessel.mmsi, vessel)
    IN  \/ MapSize(ais) <= FirstBatch
        \/ MapSize(ais) % EveryNth = 0
        \/ MapHas(s.myVessels, vessel.mmsi)

\* onmessage reaches one of its two calls of refreshMapWithFilters
refreshesMap(s, vessel) ==
    /\ admits(s, vessel)
    /\ shouldUpdateMap(s, vessel)
    /\ s.showAllVessels \/ MapHas(s.myVessels, vessel.mmsi)

\* aisWebSocket.onmessage for { type: 'vessel_update', data: vessel }
onmessage(s, vessel) ==
    LET ais == MapSet(s.aisVessels, vessel.mmsi, vessel)
        my == IF MapHas(s.myVessels, vessel.mmsi)
              THEN MapSet(s.myVessels, vessel.mmsi,
                          Spread(MapGet(s.myVessels, vessel.mmsi), vessel))
              ELSE s.myVessels
        s1 == [s EXCEPT !.aisVessels = ais, !.myVessels = my,
                        !.pending = Touch(@, {vessel.mmsi})]
    IN  IF ~admits(s, vessel) THEN s
        ELSE IF shouldUpdateMap(s, vessel) /\ s1.showAllVessels
             THEN refreshMapWithFilters([s1 EXCEPT !.allVessels = MapSpread(my, ais)])
             ELSE IF shouldUpdateMap(s, vessel) /\ MapHas(my, vessel.mmsi)
                  THEN refreshMapWithFilters([s1 EXCEPT !.allVessels = my])
                  ELSE s1

\* What a WebSocket delivers: a text that is not JSON, or a message with a type
\* and zero or one vessel as its data.
MessageTypes == {"vessel_update", "connection"}
Malformed == [json |-> FALSE, type |-> "", data |-> << >>]
Message(type, data) == [json |-> TRUE, type |-> type, data |-> data]
StreamPayloads ==
    {Malformed} \cup
    {Message(type, data) :
        type \in MessageTypes, data \in {<< >>} \cup {<<v>> : v \in VesselRecords}}

\* onmessage closing the socket when JSON.parse throws
onmessageEventClosing(s, payload) ==
    IF ~payload.json THEN [s EXCEPT !.sockets[s.aisWebSocket] = close(@)]
    ELSE IF payload.type = "vessel_update" /\ payload.data # << >>
         THEN onmessage(s, payload.data[1])
         ELSE s

\* onmessage taking the data of a message of any type
onmessageEventAnyType(s, payload) ==
    IF ~payload.json THEN s
    ELSE IF payload.data # << >> THEN onmessage(s, payload.data[1])
         ELSE s

\* aisWebSocket.onmessage: JSON.parse in try/catch, then the test of the type
onmessageEvent(s, payload) ==
    IF ~payload.json THEN s
    ELSE IF payload.type = "vessel_update" /\ payload.data # << >>
         THEN onmessage(s, payload.data[1])
         ELSE s

----------------------------------------------------------------------------
(* Filters *)

StatusFilters == {"moving", "ballast", "anchored", "stationary"}
TypeFilters == {"tanker", "container", "cargo", "other"}

\* ship_type is the set of the words its text contains, empty for '' and for
\* a record without ship_type; toLowerCase turns each word into lower case
toLowerCase(type) ==
    {CASE word = "LNG" -> "lng"
       [] word = "Tanker" -> "tanker"
       [] word = "Container" -> "container"
       [] word = "Bulk" -> "bulk"
       [] OTHER -> word : word \in type}

\* getVesselCategory reading ship_type as it is written
getVesselCategoryCaseSensitive(vessel) ==
    LET backendCategory == vessel.ship_category
        type == vessel.ship_type
    IN  IF backendCategory \in {"Tanker", "Cargo", "Container"} THEN backendCategory
        ELSE IF type = {} THEN "Other"
        ELSE IF type \cap {"tanker", "oil", "lng", "lpg"} # {} THEN "Tanker"
        ELSE IF "container" \in type THEN "Container"
        ELSE IF type \cap {"cargo", "bulk", "general"} # {} THEN "Cargo"
        ELSE "Other"

getVesselCategory(vessel) ==
    LET backendCategory == vessel.ship_category
        type == toLowerCase(vessel.ship_type)
    IN  IF backendCategory \in {"Tanker", "Cargo", "Container"} THEN backendCategory
        ELSE IF type = {} THEN "Other"
        ELSE IF type \cap {"tanker", "oil", "lng", "lpg"} # {} THEN "Tanker"
        ELSE IF "container" \in type THEN "Container"
        ELSE IF type \cap {"cargo", "bulk", "general"} # {} THEN "Cargo"
        ELSE "Other"

\* the callback of applyFilters testing the status without statusFilters.size > 0
passesApplyFiltersUnguarded(vessel, filters) ==
    LET statusFilters == filters \cap {"moving", "ballast", "anchored", "stationary"}
        typeFilters == filters \cap {"tanker", "container", "cargo", "other"}
        allStatusSelected == Cardinality(statusFilters) = 4
        allTypesSelected == Cardinality(typeFilters) = 4
        category == getVesselCategory(vessel)
        matchesStatus ==
            \E filter \in statusFilters :
                \/ filter = "moving" /\ ~vessel.is_ballast /\ ~vessel.is_anchored
                                     /\ ~vessel.is_stationary
                \/ filter = "ballast" /\ vessel.is_ballast
                \/ filter = "anchored" /\ vessel.is_anchored
                \/ filter = "stationary" /\ vessel.is_stationary
        matchesType ==
            \E filter \in typeFilters :
                \/ filter = "tanker" /\ category = "Tanker"
                \/ filter = "container" /\ category = "Container"
                \/ filter = "cargo" /\ category = "Cargo"
                \/ filter = "other" /\ category = "Other"
    IN  IF ~allStatusSelected /\ ~matchesStatus THEN FALSE
        ELSE IF typeFilters # {} /\ ~allTypesSelected /\ ~matchesType THEN FALSE
        ELSE TRUE

\* the callback of allVesselsArray.filter in applyFilters, for activeFilters = filters
passesApplyFilters(vessel, filters) ==
    LET statusFilters == filters \cap {"moving", "ballast", "anchored", "stationary"}
        typeFilters == filters \cap {"tanker", "container", "cargo", "other"}
        allStatusSelected ==
            /\ Cardinality(statusFilters) = 4
            /\ {"moving", "anchored", "stationary", "ballast"} \subseteq statusFilters
        allTypesSelected ==
            /\ Cardinality(typeFilters) = 4
            /\ {"tanker", "container", "cargo", "other"} \subseteq typeFilters
        category == getVesselCategory(vessel)
        matchesStatus ==
            \E filter \in statusFilters :
                \/ filter = "moving" /\ ~vessel.is_ballast /\ ~vessel.is_anchored
                                     /\ ~vessel.is_stationary
                \/ filter = "ballast" /\ vessel.is_ballast
                \/ filter = "anchored" /\ vessel.is_anchored
                \/ filter = "stationary" /\ vessel.is_stationary
        matchesType ==
            \E filter \in typeFilters :
                \/ filter = "tanker" /\ category = "Tanker"
                \/ filter = "container" /\ category = "Container"
                \/ filter = "cargo" /\ category = "Cargo"
                \/ filter = "other" /\ category = "Other"
    IN  IF statusFilters # {} /\ ~allStatusSelected /\ ~matchesStatus THEN FALSE
        ELSE IF typeFilters # {} /\ ~allTypesSelected /\ ~matchesType THEN FALSE
        ELSE TRUE

\* applyFilters: the vessels it hands to updateVesselsOnMap
applyFilters(s) ==
    LET allVesselsArray == [i \in DOMAIN s.allVessels |-> s.allVessels[i].v]
    IN  IF s.activeFilters = {} THEN allVesselsArray
        ELSE SelectSeq(allVesselsArray, LAMBDA v : passesApplyFilters(v, s.activeFilters))

\* the callback of filterByActiveFilters requiring every selected filter to
\* match, as the filter of the sidebar list does
passesActiveFiltersAllOf(vessel, filters) ==
    LET category == getVesselCategory(vessel)
    IN  \A filter \in filters :
            /\ filter = "moving" => ~vessel.is_ballast /\ ~vessel.is_anchored
                                    /\ ~vessel.is_stationary
            /\ filter = "ballast" => vessel.is_ballast
            /\ filter = "anchored" => vessel.is_anchored
            /\ filter = "stationary" => vessel.is_stationary
            /\ filter = "tanker" => category = "Tanker"
            /\ filter = "container" => category = "Container"
            /\ filter = "cargo" => category = "Cargo"
            /\ filter = "other" => category = "Other"

\* the callback of vessels.filter in filterByActiveFilters, for activeFilters = filters
passesActiveFilters(vessel, filters) ==
    LET statusFilters == filters \cap {"moving", "ballast", "anchored", "stationary"}
        typeFilters == filters \cap {"tanker", "container", "cargo", "other"}
        allStatusSelected ==
            /\ Cardinality(statusFilters) = 4
            /\ {"moving", "anchored", "stationary", "ballast"} \subseteq statusFilters
        allTypesSelected ==
            /\ Cardinality(typeFilters) = 4
            /\ {"tanker", "container", "cargo", "other"} \subseteq typeFilters
        category == getVesselCategory(vessel)
        matchesStatus ==
            \E filter \in statusFilters :
                \/ filter = "moving" /\ ~vessel.is_ballast /\ ~vessel.is_anchored
                                     /\ ~vessel.is_stationary
                \/ filter = "ballast" /\ vessel.is_ballast
                \/ filter = "anchored" /\ vessel.is_anchored
                \/ filter = "stationary" /\ vessel.is_stationary
        matchesType ==
            \E filter \in typeFilters :
                \/ filter = "tanker" /\ category = "Tanker"
                \/ filter = "container" /\ category = "Container"
                \/ filter = "cargo" /\ category = "Cargo"
                \/ filter = "other" /\ category = "Other"
    IN  IF statusFilters # {} /\ ~allStatusSelected /\ ~matchesStatus THEN FALSE
        ELSE IF typeFilters # {} /\ ~allTypesSelected /\ ~matchesType THEN FALSE
        ELSE TRUE

filterByActiveFilters(s, vessels) ==
    IF s.activeFilters = {} THEN vessels
    ELSE SelectSeq(vessels, LAMBDA v : passesActiveFilters(v, s.activeFilters))

FilterDebounceMs == 150

\* toggleFilter leaving the timeout it set before to run
toggleFilterWithoutClear(s, filterType) ==
    LET id == NextHandle(s, {s.mapMoveTimeout})
        s1 == [s EXCEPT !.activeFilters = IF filterType \in @ THEN @ \ {filterType}
                                          ELSE @ \cup {filterType}]
    IN  [setTimeout(s1, "applyFilters", id, FilterDebounceMs) EXCEPT !.filterTimeout = id]

\* toggleFilter: the chip goes on or off and the 150 ms timeout starts anew
toggleFilter(s, filterType) ==
    LET s1 == [s EXCEPT !.activeFilters = IF filterType \in @ THEN @ \ {filterType}
                                          ELSE @ \cup {filterType}]
        s2 == clearTimeout(s1, s.filterTimeout)
        id == NextHandle(s2, {s.mapMoveTimeout})
    IN  [setTimeout(s2, "applyFilters", id, FilterDebounceMs) EXCEPT !.filterTimeout = id]

\* the timeout id of toggleFilter fires: applyFilters()
filterTimeoutFires(s, id) == maybeUpdateVesselList(clearTimeout(s, id), TRUE)

InitFilters ==
    /\ activeFilters = {}
    /\ filterTimeout = NoHandle
    /\ timeouts = {}
    /\ mapMoveTimeout = NoHandle
    /\ lastBounds = Null

----------------------------------------------------------------------------
(* Bounding-box search *)

MaxResponse == 2    \* records in one bounding-box response

\* String(vessel?.mmsi ?? '').trim()
DedupeKey(vessel) == Trim(String(IF vessel.mmsi = NoMmsi THEN Blank ELSE vessel.mmsi))

\* dedupeVesselsByMmsi keeping the last record of a key
RECURSIVE dedupeVesselsByMmsiKeepingLast(_)
dedupeVesselsByMmsiKeepingLast(vessels) ==
    IF vessels = << >> THEN << >>
    ELSE LET rest == dedupeVesselsByMmsiKeepingLast(Tail(vessels))
             first == Head(vessels)
         IN  IF DedupeKey(first) = Blank THEN <<first>> \o rest
             ELSE IF \E i \in DOMAIN rest : DedupeKey(rest[i]) = DedupeKey(first)
             THEN rest
             ELSE <<first>> \o rest

RECURSIVE dedupeVesselsByMmsi(_)
dedupeVesselsByMmsi(vessels) ==
    IF vessels = << >> THEN << >>
    ELSE LET init == dedupeVesselsByMmsi(SubSeq(vessels, 1, Len(vessels) - 1))
             last == vessels[Len(vessels)]
         IN  IF DedupeKey(last) = Blank THEN Append(init, last)
             ELSE IF \E i \in DOMAIN init : DedupeKey(init[i]) = DedupeKey(last)
             THEN init
             ELSE Append(init, last)

MapValues(m) == [i \in DOMAIN m |-> m[i].v]
Range(q) == {q[i] : i \in DOMAIN q}

InRect(vessel, rect) ==
    /\ Ge(vessel.latitude, rect.minLat)
    /\ Le(vessel.latitude, rect.maxLat)
    /\ Ge(vessel.longitude, rect.minLon)
    /\ Le(vessel.longitude, rect.maxLon)

\* filteredLocalVessels of searchInBoundingBox, which updateSearchResultsList
\* is given when it is not empty
filteredLocalVessels(s, rect) ==
    LET localVessels == SelectSeq(MapValues(s.aisVessels), LAMBDA v : InRect(v, rect))
        uniqueLocalVessels == dedupeVesselsByMmsi(localVessels)
    IN  filterByActiveFilters(s, uniqueLocalVessels)

\* searchInBoundingBox asking the backend whatever the cache holds
searchInBoundingBoxRemoteOnly(s, rect, silent) ==
    [s EXCEPT !.pending = @ \cup {[Request("bbox") EXCEPT !.rect = rect]}]

\* searchInBoundingBox up to its first await
searchInBoundingBox(s, rect, silent) ==
    LET s1 == ensureAllVesselsMode(s)
    IN  IF Len(filteredLocalVessels(s, rect)) > 0
        THEN refreshMapWithFilters(
                [s1 EXCEPT !.allVessels = MapSpread(s1.myVessels, s1.aisVessels)])
        ELSE [s EXCEPT !.pending = @ \cup
                {[Request("bbox") EXCEPT !.rect = rect]}]

\* forEach admitting only the vessels the Map does not hold yet
RECURSIVE SetAllKeepingHeld(_, _)
SetAllKeepingHeld(m, vessels) ==
    IF vessels = << >> THEN m
    ELSE SetAllKeepingHeld(IF MapHas(m, Head(vessels).mmsi) THEN m
                           ELSE MapSet(m, Head(vessels).mmsi, Head(vessels)),
                           Tail(vessels))

\* vessels.forEach(v => aisVessels.set(v.mmsi, v))
RECURSIVE SetAll(_, _)
SetAll(m, vessels) ==
    IF vessels = << >> THEN m
    ELSE SetAll(MapSet(m, Head(vessels).mmsi, Head(vessels)), Tail(vessels))

\* searchInBoundingBox after the response: vessels, or the request failed
searchInBoundingBoxResponse(s, req, ok, vessels) ==
    LET s0 == [s EXCEPT !.pending = @ \ {req}]
        uniqueVessels == dedupeVesselsByMmsi(vessels)
        filteredVessels == filterByActiveFilters(s, uniqueVessels)
        s1 == [s0 EXCEPT !.aisVessels = SetAll(@, uniqueVessels),
                         !.pending = Touch(@, {v.mmsi : v \in Range(uniqueVessels)})]
        s2 == ensureAllVesselsMode(s1)
    IN  IF ~ok \/ Len(filteredVessels) = 0 THEN s0
        ELSE refreshMapWithFilters(
                [s2 EXCEPT !.allVessels = MapSpread(s2.myVessels, s2.aisVessels)])

\* searchCurrentView with the map showing view
searchCurrentView(s, view, silent) == searchInBoundingBox(s, view, silent)

\* what /api/vessels/bbox answers for rect
RECURSIVE SeqsUpTo(_, _)
SeqsUpTo(set, n) ==
    IF n = 0 THEN {<< >>}
    ELSE LET shorter == SeqsUpTo(set, n - 1)
         IN  shorter \cup {Append(q, x) : q \in {r \in shorter : Len(r) = n - 1}, x \in set}
BboxResponses(rect) == SeqsUpTo({v \in VesselRecords : InRect(v, rect)}, MaxResponse)

\* records with the properties the filters read: laden or in ballast, a tanker
\* or a cargo vessel by the backend's category
AreaRecords ==
    {[mmsi |-> m, latitude |-> p[1], longitude |-> p[2], speed |-> Undefined,
      id |-> Undefined, added_at |-> Undefined,
      is_ballast |-> b, is_anchored |-> FALSE, is_stationary |-> FALSE,
      ship_category |-> c, ship_type |-> {}] :
        m \in TypedMmsis, p \in Positions, b \in BOOLEAN, c \in {"Tanker", "Cargo"}}
AreaResponses(rect) == SeqsUpTo({v \in AreaRecords : InRect(v, rect)}, MaxResponse)

----------------------------------------------------------------------------
(* Tracked store *)

MaxRows == 1        \* rows in one answer of /api/vessels/my-vessels

\* a rebuild that moves the tracked vessels out of aisVessels
RebuildDraining(s) ==
    LET drained == SelectSeq(s.aisVessels, LAMBDA e : ~MapHas(s.myVessels, e.k))
    IN  IF s.showAllVessels
        THEN refreshMapWithFilters([s EXCEPT !.allVessels = MapSpread(s.myVessels, s.aisVessels),
                                             !.aisVessels = drained])
        ELSE refreshMapWithFilters([s EXCEPT !.allVessels = s.myVessels])

\* the rebuild of allVessels for the display mode, and refreshMapWithFilters()
Rebuild(s) ==
    IF s.showAllVessels
    THEN refreshMapWithFilters([s EXCEPT !.allVessels = MapSpread(s.myVessels, s.aisVessels)])
    ELSE refreshMapWithFilters([s EXCEPT !.allVessels = s.myVessels])

\* Array.prototype.find: the first element that satisfies Test, in a sequence of
\* zero or one element
Find(q, Test(_)) ==
    LET hits == SelectSeq(q, Test)
    IN  IF hits = << >> THEN << >> ELSE <<Head(hits)>>

\* the vessel addVesselByMMSI finds for the digits searchTerm
Lookup(s, searchTerm) ==
    IF MapHas(s.aisVessels, searchTerm) THEN <<MapGet(s.aisVessels, searchTerm)>>
    ELSE IF MapHas(s.aisVessels, parseInt(searchTerm))
         THEN <<MapGet(s.aisVessels, parseInt(searchTerm))>>
    ELSE IF MapHas(s.myVessels, searchTerm) THEN <<MapGet(s.myVessels, searchTerm)>>
    ELSE IF MapHas(s.myVessels, parseInt(searchTerm))
         THEN <<MapGet(s.myVessels, parseInt(searchTerm))>>
    ELSE Find(MapValues(MapSpread(s.myVessels, s.aisVessels)),
              LAMBDA v : String(v.mmsi) = searchTerm \/ v.mmsi = parseInt(searchTerm))

\* addVesselByMMSI from "Add to myVessels" on
addToMyVessels(s, mmsiStr, vessel) ==
    Rebuild([s EXCEPT !.myVessels = MapSet(@, mmsiStr, vessel)])

\* addVesselByMMSI up to its await
addVesselByMMSI(s, searchTerm) ==
    LET found == Lookup(s, searchTerm)
        vessel == found[1]
        mmsiStr == String(vessel.mmsi)
    IN  IF found = << >> THEN s
        ELSE IF MapHas(s.myVessels, mmsiStr) \/ MapHas(s.myVessels, parseInt(mmsiStr)) THEN s
        ELSE IF s.authToken
             THEN [s EXCEPT !.pending = @ \cup
                     {[Request("track") EXCEPT !.vessel = <<vessel>>, !.alias = TRUE,
                                               !.mmsi = <<mmsiStr>>]}]
             ELSE addToMyVessels(s, mmsiStr, vessel)

\* addVesselByMMSI adding the vessel whatever /api/vessels/track answers
addVesselByMMSIResponseOptimistic(s, req, ok, id) ==
    addToMyVessels([s EXCEPT !.pending = @ \ {req}], req.mmsi[1],
                   [req.vessel[1] EXCEPT !.id = id])

\* addVesselByMMSI after the answer of /api/vessels/track
addVesselByMMSIResponse(s, req, ok, id) ==
    LET s0 == [s EXCEPT !.pending = @ \ {req}]
        vessel == [req.vessel[1] EXCEPT !.id = id]
        key == req.vessel[1].mmsi
        \* vessel.id = savedVessel.id writes the object aisVessels may still hold
        s1 == IF req.alias /\ MapHas(s0.aisVessels, key)
              THEN [s0 EXCEPT !.aisVessels = MapSet(@, key, vessel)]
              ELSE s0
    IN  IF ok THEN addToMyVessels(s1, req.mmsi[1], vessel) ELSE s0

\* confirmRemoveVessel from "Remove locally" on; the updateVesselList() that
\* follows refreshMapWithFilters() leaves lastListUpdateTime alone
removeLocally(s, mmsiStr) ==
    refreshMapWithFilters(
        [s EXCEPT !.myVessels = MapDelete(MapDelete(@, mmsiStr), parseInt(mmsiStr)),
                  !.allVessels = MapDelete(MapDelete(@, mmsiStr), parseInt(mmsiStr))])

\* confirmRemoveVessel up to its await, the user confirming
confirmRemoveVessel(s, mmsi) ==
    LET mmsiStr == String(mmsi)
        id == IF MapHas(s.myVessels, mmsiStr) THEN MapGet(s.myVessels, mmsiStr).id
              ELSE IF MapHas(s.myVessels, parseInt(mmsiStr))
                   THEN MapGet(s.myVessels, parseInt(mmsiStr)).id
              ELSE Undefined
    IN  IF s.authToken
        THEN [s EXCEPT !.pending = @ \cup
                {[Request("untrack") EXCEPT !.mmsi = <<mmsiStr>>, !.id = id]}]
        ELSE removeLocally(s, mmsiStr)

\* confirmRemoveVessel after the answer to DELETE by MMSI, or by id (fallback)
confirmRemoveVesselResponse(s, req, ok, threw) ==
    LET s0 == [s EXCEPT !.pending = @ \ {req}]
    IN  IF threw THEN s0
        ELSE IF ok THEN removeLocally(s0, req.mmsi[1])
        ELSE IF ~req.fallback /\ req.id # Undefined
             THEN [s0 EXCEPT !.pending = @ \cup {[req EXCEPT !.fallback = TRUE]}]
             ELSE s0

\* clearAllVessels from "Clear all tracked vessels locally" on
clearLocally(s) ==
    LET s1 == [s EXCEPT !.myVessels = EmptyMap]
    IN  IF s1.showAllVessels
        THEN refreshMapWithFilters([s1 EXCEPT !.allVessels = s1.aisVessels])
        ELSE refreshMapWithFilters([s1 EXCEPT !.allVessels = EmptyMap])

\* clearAllVessels up to its await, the user confirming
clearAllVessels(s) ==
    IF MapSize(s.myVessels) = 0 THEN s
    ELSE IF s.authToken
         THEN [s EXCEPT !.pending = @ \cup {Request("clear")}]
         ELSE clearLocally(s)

\* clearAllVessels after Promise.all: failed deletes are only counted
clearAllVesselsResponse(s, req, failed) ==
    clearLocally([s EXCEPT !.pending = @ \ {req}])

\* the record loadMyVesselsFromDatabase builds from a row
TrackedRecord(row) ==
    [mmsi |-> row.mmsi, latitude |-> row.latitude, longitude |-> row.longitude,
     speed |-> Undefined, id |-> row.id, added_at |-> row.added_at]

RECURSIVE SetRows(_, _)
SetRows(m, rows) ==
    IF rows = << >> THEN m
    ELSE SetRows(MapSet(m, Head(rows).mmsi, TrackedRecord(Head(rows))), Tail(rows))

\* loadMyVesselsFromDatabase up to its await
loadMyVesselsFromDatabase(s) ==
    IF ~s.authToken THEN s
    ELSE [s EXCEPT !.pending = @ \cup {Request("load")}]

\* loadMyVesselsFromDatabase after the answer
loadMyVesselsFromDatabaseResponse(s, req, ok, vessels) ==
    LET s0 == [s EXCEPT !.pending = @ \ {req}]
    IN  IF ok THEN Rebuild([s0 EXCEPT !.myVessels = SetRows(@, vessels)]) ELSE s0

\* filterByBbox up to its await, the form holding rect
filterByBbox(s, rect) ==
    IF NaN \in {rect.minLat, rect.minLon, rect.maxLat, rect.maxLon} THEN s
    ELSE IF rect.minLat > rect.maxLat \/ rect.minLon > rect.maxLon THEN s
    ELSE [s EXCEPT !.pending = @ \cup {[Request("bboxForm") EXCEPT !.rect = rect]}]

\* filterByBbox after the answer
filterByBboxResponse(s, req, ok, vessels) ==
    LET s0 == [s EXCEPT !.pending = @ \ {req}]
        s1 == [s0 EXCEPT !.aisVessels = SetAll(@, vessels),
                         !.pending = Touch(@, {v.mmsi : v \in Range(vessels)})]
    IN  IF ~ok THEN s0
        ELSE IF s1.showAllVessels
             THEN refreshMapWithFilters(
                    [s1 EXCEPT !.allVessels = MapSpread(s1.myVessels, s1.aisVessels)])
             ELSE s1

\* the answers of /api/vessels/my-vessels: rows of distinct vessels
RowResponses ==
    {q \in SeqsUpTo(TrackedRows, MaxRows) :
        \A i, j \in DOMAIN q : q[i].mmsi.n = q[j].mmsi.n => i = j}

----------------------------------------------------------------------------
(* Search by identifier *)

\* the all-digit terms of the search box
SearchTerms == {Str(n) : n \in Mmsis \cup {3}}

\* searchVessels for an all-digit searchTerm: the vessel it flies to, if any;
\* it changes none of the stores
searchVessels(s, searchTerm) ==
    LET allSearchableVessels == MapSpread(s.myVessels, s.aisVessels)
    IN  IF MapHas(s.aisVessels, searchTerm) THEN <<MapGet(s.aisVessels, searchTerm)>>
        ELSE IF MapHas(s.myVessels, searchTerm) THEN <<MapGet(s.myVessels, searchTerm)>>
        ELSE Find(MapValues(allSearchableVessels),
                  LAMBDA v : \/ v.mmsi = searchTerm
                             \/ v.mmsi = parseInt(searchTerm)
                             \/ String(v.mmsi) = searchTerm)

----------------------------------------------------------------------------
(* Handlers of the map module *)

MapMoveDebounceMs == 500

\* a / b < 0.2 in floating point, of integers a >= 0 and b: a / 0 is Infinity
\* or NaN, and the test fails
LessThanFifth(a, b) ==
    IF b > 0 THEN 5 * a < b
    ELSE IF b < 0 THEN TRUE
    ELSE FALSE
Abs(x) == IF x < 0 THEN 0 - x ELSE x

\* handleMapMove leaving the timeout it set before to run
handleMapMoveWithoutClear(s) ==
    LET id == NextHandle(s, {s.filterTimeout})
    IN  [setTimeout(s, "handleMapMove", id, MapMoveDebounceMs) EXCEPT !.mapMoveTimeout = id]

\* handleMapMove, on 'moveend': the 500 ms timeout starts anew
handleMapMove(s) ==
    LET s1 == clearTimeout(s, s.mapMoveTimeout)
        id == NextHandle(s1, {s.filterTimeout})
    IN  [setTimeout(s1, "handleMapMove", id, MapMoveDebounceMs) EXCEPT !.mapMoveTimeout = id]

\* the map 'load' handler: lastBounds stays null
mapLoad(s, initialBounds) ==
    searchCurrentView(updateViewportBounds(s, initialBounds), initialBounds, TRUE)

\* the timeout id of handleMapMove fires, the map showing currentBounds
mapMoveTimeoutFires(s, id, currentBounds) ==
    LET s0 == clearTimeout(s, id)
        latDiff == Abs(currentBounds.maxLat - s.lastBounds.maxLat)
        lonDiff == Abs(currentBounds.maxLon - s.lastBounds.maxLon)
        latRange == currentBounds.maxLat - currentBounds.minLat
        lonRange == currentBounds.maxLon - currentBounds.minLon
        s1 == [s0 EXCEPT !.lastBounds = currentBounds]
    IN  IF ~s.lastBounds.null
           /\ LessThanFifth(latDiff, latRange) /\ LessThanFifth(lonDiff, lonRange)
        THEN s0
        ELSE searchCurrentView(updateViewportBounds(s1, currentBounds), currentBounds, TRUE)

\* the 2 s auto-start timeout
autoStart(s, view) ==
    searchCurrentView(connectToAISStream([s EXCEPT !.autoStartTimer = FALSE]), view, TRUE)

toggleVesselSource(s, view) ==
    LET on == ~s.showAllVessels
        s1 == [s EXCEPT !.showAllVessels = on]
        s2 == IF ~IsOpen(s1) THEN connectToAISStream(s1) ELSE s1
        s3 == IF MapSize(s2.aisVessels) = 0 THEN searchCurrentView(s2, view, FALSE) ELSE s2
    IN  IF on
        THEN refreshMapWithFilters(
                [s3 EXCEPT !.allVessels = MapSpread(s3.myVessels, s3.aisVessels)])
        ELSE refreshMapWithFilters([s1 EXCEPT !.allVessels = s1.myVessels])

----------------------------------------------------------------------------
(* The secondary WebSocket client of the map module *)

MAX_RECONNECT_ATTEMPTS == 5

\* ws.onerror calling attemptReconnect as ws.onclose does
wsOnerrorReconnecting(s, i) ==
    IF s.reconnectAttempts < MAX_RECONNECT_ATTEMPTS
    THEN [s EXCEPT !.reconnectAttempts = @ + 1, !.wsReconnectTimers = @ + 1]
    ELSE [s EXCEPT !.wsTerminal = TRUE]

\* attemptReconnect without the test of reconnectAttempts
attemptReconnectAlways(s) ==
    [s EXCEPT !.reconnectAttempts = @ + 1, !.wsReconnectTimers = @ + 1]

connectWebSocket(s) ==
    LET i == Place(s.wsSockets)
        socket == [readyState |-> "CONNECTING"]
    IN  [s EXCEPT !.wsSockets = IF i \in DOMAIN @ THEN [@ EXCEPT ![i] = socket]
                                 ELSE Append(@, socket),
                  !.ws = i]

attemptReconnect(s) ==
    IF s.reconnectAttempts < MAX_RECONNECT_ATTEMPTS
    THEN [s EXCEPT !.reconnectAttempts = @ + 1, !.wsReconnectTimers = @ + 1]
    ELSE [s EXCEPT !.wsTerminal = TRUE]

\* ws.onopen of socket i; subscribeToVessels sends and changes nothing here
wsOnopen(s, i) ==
    [s EXCEPT !.wsSockets[i].readyState = "OPEN",
              !.wsConnected = TRUE,
              !.reconnectAttempts = 0]

\* ws.onclose of socket i
wsOnclose(s, i) ==
    attemptReconnect([s EXCEPT !.wsSockets[i].readyState = "CLOSED",
                               !.wsConnected = FALSE])

\* ws.onerror of socket i: updateConnectionStatus(false) only
wsOnerror(s, i) == s

\* setTimeout(connectWebSocket, RECONNECT_DELAY) fires
wsReconnectTimeout(s) ==
    connectWebSocket([s EXCEPT !.wsReconnectTimers = @ - 1])

\* handleWebSocketMessage: every case logs or notifies
handleWebSocketMessage(s, data) == s

\* ws.onmessage: JSON.parse throws on a malformed payload and the handler ends
wsOnmessage(s, payload) ==
    IF ~payload.json THEN s ELSE handleWebSocketMessage(s, payload)

InitWs ==
    /\ wsSockets = << >>
    /\ ws = NoSocket
    /\ wsConnected = FALSE
    /\ reconnectAttempts = 0
    /\ wsReconnectTimers = 0
    /\ wsTerminal = FALSE

----------------------------------------------------------------------------
(* Events *)

Do(t) == WithinModel(t) /\ Becomes(t)

AutoStart ==
    /\ autoStartTimer
    /\ \E view \in ViewRects : Do(autoStart(S, view))

\* 'moveend', and 500 ms later its timeout
MapMove ==
    \E b \in ViewRects :
        LET s1 == handleMapMove(S)
        IN  Do(mapMoveTimeoutFires(s1, s1.mapMoveTimeout, b))

ToggleVesselSource == \E view \in ViewRects : Do(toggleVesselSource(S, view))

StreamMessage ==
    /\ \E i \in DOMAIN sockets : sockets[i].readyState = "OPEN"
    /\ \E payload \in StreamPayloads : Do(onmessageEvent(S, payload))

BboxResponse ==
    \E req \in pending :
        /\ req.op = "bbox"
        /\ \/ \E vessels \in BboxResponses(req.rect) :
                Do(searchInBoundingBoxResponse(S, req, TRUE, vessels))
           \/ Do(searchInBoundingBoxResponse(S, req, FALSE, << >>))

AddVessel ==
    /\ ~InFlight(S, "track")   \* the button is disabled until the answer
    /\ \E n \in Mmsis : Do(addVesselByMMSI(S, Str(n)))

TrackResponse ==
    \E req \in pending :
        /\ req.op = "track"
        /\ \/ \E id \in Ids : Do(addVesselByMMSIResponse(S, req, TRUE, id))
           \/ Do(addVesselByMMSIResponse(S, req, FALSE, Undefined))

RemoveVessel ==
    \E n \in Denoted(myVessels) : Do(confirmRemoveVessel(S, Str(n)))

UntrackResponse ==
    \E req \in pending :
        /\ req.op = "untrack"
        /\ \E ok \in BOOLEAN, threw \in BOOLEAN :
            Do(confirmRemoveVesselResponse(S, req, ok, threw))

ClearAll ==
    /\ MapSize(myVessels) > 0
    /\ Do(clearAllVessels(S))

ClearResponse ==
    \E req \in pending :
        /\ req.op = "clear"
        /\ \E failed \in BOOLEAN : Do(clearAllVesselsResponse(S, req, failed))

LoadMyVessels ==
    /\ authToken
    /\ ~InFlight(S, "load")
    /\ Do(loadMyVesselsFromDatabase(S))

LoadResponse ==
    \E req \in pending :
        /\ req.op = "load"
        /\ \/ \E rows \in RowResponses :
                Do(loadMyVesselsFromDatabaseResponse(S, req, TRUE, rows))
           \/ Do(loadMyVesselsFromDatabaseResponse(S, req, FALSE, << >>))

FilterByBbox ==
    /\ ~InFlight(S, "bboxForm")
    /\ \E rect \in ViewRects : Do(filterByBbox(S, rect))

FilterResponse ==
    \E req \in pending :
        /\ req.op = "bboxForm"
        /\ \/ \E vessels \in BboxResponses(req.rect) :
                Do(filterByBboxResponse(S, req, TRUE, vessels))
           \/ Do(filterByBboxResponse(S, req, FALSE, << >>))

SocketOpens ==
    \E i \in DOMAIN sockets :
        /\ sockets[i].readyState = "CONNECTING"
        /\ Do([onopen(S, i) EXCEPT !.admissions = 0])

SocketCloses ==
    \E i \in DOMAIN sockets :
        /\ sockets[i].readyState \in {"CONNECTING", "OPEN", "CLOSING"}
        /\ Do(onclose(S, i))

SocketErrors ==
    \E i \in DOMAIN sockets :
        /\ sockets[i].readyState \in {"CONNECTING", "OPEN", "CLOSING"}
        /\ Do(onerror(S, i))

ConnectionTimeout ==
    \E i \in DOMAIN sockets :
        /\ sockets[i].connectionTimeout
        /\ Do(connectionTimeout(S, i))

ReconnectTimeout ==
    /\ aisReconnectTimers > 0
    /\ Do(reconnectTimeout(S))

WsPageLoad ==
    /\ ws = NoSocket
    /\ Do(connectWebSocket(S))

WsOpens ==
    \E i \in DOMAIN wsSockets :
        /\ wsSockets[i].readyState = "CONNECTING"
        /\ Do(wsOnopen(S, i))

WsErrors ==
    \E i \in DOMAIN wsSockets :
        /\ wsSockets[i].readyState \in {"CONNECTING", "OPEN"}
        /\ Do(wsOnerror(S, i))

WsCloses ==
    \E i \in DOMAIN wsSockets :
        /\ wsSockets[i].readyState \in {"CONNECTING", "OPEN"}
        /\ Do(wsOnclose(S, i))

WsReconnectTimeout ==
    /\ wsReconnectTimers > 0
    /\ Do(wsReconnectTimeout(S))

WsMessage ==
    /\ \E i \in DOMAIN wsSockets : wsSockets[i].readyState = "OPEN"
    /\ \E payload \in StreamPayloads : Do(wsOnmessage(S, payload))

QuickRegion == \E rect \in ViewRects : Do(searchInBoundingBox(S, rect, FALSE))

SearchVessels ==
    \E searchTerm \in SearchTerms :
        /\ Len(searchVessels(S, searchTerm)) <= 1
        /\ Do(S)

AreaResponse ==
    \E req \in pending :
        /\ req.op = "bbox"
        /\ \/ \E vessels \in AreaResponses(req.rect) :
                Do(searchInBoundingBoxResponse(S, req, TRUE, vessels))
           \/ Do(searchInBoundingBoxResponse(S, req, FALSE, << >>))

ToggleFilter == \E filterType \in StatusFilters \cup TypeFilters : Do(toggleFilter(S, filterType))

FilterTimeout ==
    \E t \in Pending(S, "applyFilters") : Do(filterTimeoutFires(S, t.id))

----------------------------------------------------------------------------
(* Spec: the stores, with the AIS socket open throughout *)

Init ==
    /\ myVessels = EmptyMap
    /\ aisVessels = EmptyMap
    /\ allVessels = EmptyMap
    /\ showAllVessels = TRUE
    /\ currentViewportBounds = Null
    /\ authToken \in BOOLEAN
    /\ pending = {}
    /\ sockets = <<[readyState |-> "OPEN", connectionTimeout |-> FALSE]>>
    /\ aisWebSocket = 1
    /\ aisReconnectTimers = 0
    /\ autoStartTimer = FALSE
    /\ InitFilters
    /\ InitWs
    /\ InitSidebar
    /\ admissions = 0

Next ==
    \/ MapMove
    \/ ToggleVesselSource
    \/ StreamMessage
    \/ BboxResponse
    \/ AddVessel
    \/ TrackResponse
    \/ RemoveVessel
    \/ UntrackResponse
    \/ ClearAll
    \/ ClearResponse
    \/ FilterByBbox
    \/ FilterResponse
    \/ SearchVessels

Spec == Init /\ [][Next]_vars

----------------------------------------------------------------------------
(* SpecConn: the AIS socket from page load on *)

InitConn ==
    /\ myVessels = EmptyMap
    /\ aisVessels = EmptyMap
    /\ allVessels = EmptyMap
    /\ showAllVessels = TRUE
    /\ currentViewportBounds = Null
    /\ authToken \in BOOLEAN
    /\ pending = {}
    /\ sockets = << >>
    /\ aisWebSocket = NoSocket
    /\ aisReconnectTimers = 0
    /\ autoStartTimer = TRUE
    /\ InitFilters
    /\ InitWs
    /\ InitSidebar
    /\ admissions = 0

NextConn ==
    \/ AutoStart
    \/ ToggleVesselSource
    \/ BboxResponse
    \/ SocketOpens
    \/ SocketErrors
    \/ SocketCloses
    \/ ConnectionTimeout
    \/ ReconnectTimeout

SpecConn == InitConn /\ [][NextConn]_vars

----------------------------------------------------------------------------
(* SpecWs: the secondary client from page load on, beside the AIS stream *)

NextWs ==
    \/ WsPageLoad
    \/ WsOpens
    \/ WsErrors
    \/ WsCloses
    \/ WsReconnectTimeout
    \/ WsMessage
    \/ StreamMessage
    \/ AddVessel
    \/ TrackResponse

SpecWs == Init /\ [][NextWs]_vars

----------------------------------------------------------------------------
(* SpecFilter: the filter chips over a display set of one or two vessels *)

ShipCategories == {"Tanker", "Cargo", "Container", "Passenger"}
ShipTypes == {{}, {"oil", "tanker"}, {"container"}, {"bulk"}, {"fishing"},
              {"LNG"}, {"Container", "cargo"}, {"general", "lpg"}}

\* a record with the properties the filters read
Featured(m, ballast, anchored, stationary, category, type) ==
    [mmsi |-> m, latitude |-> 0, longitude |-> 0, speed |-> Undefined,
     id |-> Undefined, added_at |-> Undefined,
     is_ballast |-> ballast, is_anchored |-> anchored, is_stationary |-> stationary,
     ship_category |-> category, ship_type |-> type]

\* the category comes from the backend, or from ship_type when the backend
\* names none of Tanker, Cargo and Container
FeaturedRecords ==
    {Featured(Str(1), b, a, st, c, {}) : b \in BOOLEAN, a \in BOOLEAN, st \in BOOLEAN,
                                         c \in ShipCategories}
    \cup {Featured(Str(1), b, a, st, "Passenger", ty) :
            b \in BOOLEAN, a \in BOOLEAN, st \in BOOLEAN, ty \in ShipTypes}

\* a second vessel of the display set: under way, a tanker by its ship_type
UnderWayTanker == Featured(Num(2), FALSE, FALSE, FALSE, "Passenger", {"oil", "tanker"})

InitFilter ==
    /\ myVessels = EmptyMap
    /\ aisVessels \in {<<[k |-> v.mmsi, v |-> v]>> : v \in FeaturedRecords}
                      \cup {<<[k |-> v.mmsi, v |-> v],
                              [k |-> UnderWayTanker.mmsi, v |-> UnderWayTanker]>> :
                                v \in FeaturedRecords}
    /\ allVessels = aisVessels
    /\ showAllVessels = TRUE
    /\ currentViewportBounds = Null
    /\ authToken = FALSE
    /\ pending = {}
    /\ sockets = <<[readyState |-> "OPEN", connectionTimeout |-> FALSE]>>
    /\ aisWebSocket = 1
    /\ aisReconnectTimers = 0
    /\ autoStartTimer = FALSE
    /\ InitFilters
    /\ InitWs
    /\ InitSidebar
    /\ admissions = 0

NextFilter ==
    \/ ToggleFilter
    \/ FilterTimeout

SpecFilter == InitFilter /\ [][NextFilter]_vars

----------------------------------------------------------------------------
(* SpecSearch: region searches over a Live Cache that holds one MMSI under *)
(* several keys                                                            *)

MaxCached == 3      \* vessels in the Live Cache at the start

\* the mmsi of a cached record: "1", 1, " 1 ", 2 or none
CachedMmsis == {Str(1), Num(1), Padded(1), Num(2), NoMmsi}
CachedRecords ==
    {[mmsi |-> m, latitude |-> p[1], longitude |-> p[2], speed |-> Undefined,
      id |-> Undefined, added_at |-> Undefined] : m \in CachedMmsis, p \in Positions}

\* the Maps of at most MaxCached records, each under its own mmsi
Caches ==
    {[i \in DOMAIN q |-> [k |-> q[i].mmsi, v |-> q[i]]] :
        q \in {r \in SeqsUpTo(CachedRecords, MaxCached) :
                \A i, j \in DOMAIN r : r[i].mmsi = r[j].mmsi => i = j}}

InitSearch ==
    /\ myVessels = EmptyMap
    /\ aisVessels \in Caches
    /\ allVessels = EmptyMap
    /\ showAllVessels = TRUE
    /\ currentViewportBounds = Null
    /\ authToken = FALSE
    /\ pending = {}
    /\ sockets = <<[readyState |-> "OPEN", connectionTimeout |-> FALSE]>>
    /\ aisWebSocket = 1
    /\ aisReconnectTimers = 0
    /\ autoStartTimer = FALSE
    /\ InitFilters
    /\ InitWs
    /\ InitSidebar
    /\ admissions = 0

NextSearch ==
    \/ QuickRegion
    \/ BboxResponse

SpecSearch == InitSearch /\ [][NextSearch]_vars

----------------------------------------------------------------------------
(* SpecArea: region searches with filter chips on, over vessels that carry *)
(* the properties the filters read                                         *)

AreaFilters == {{}, {"tanker"}, {"moving", "cargo"}}

AreaCaches ==
    {[i \in DOMAIN q |-> [k |-> q[i].mmsi, v |-> q[i]]] :
        q \in {r \in SeqsUpTo(AreaRecords, MaxResponse) :
                \A i, j \in DOMAIN r : r[i].mmsi = r[j].mmsi => i = j}}

InitArea ==
    /\ myVessels = EmptyMap
    /\ aisVessels \in AreaCaches
    /\ allVessels = EmptyMap
    /\ showAllVessels = TRUE
    /\ currentViewportBounds = Null
    /\ authToken = FALSE
    /\ pending = {}
    /\ sockets = <<[readyState |-> "OPEN", connectionTimeout |-> FALSE]>>
    /\ aisWebSocket = 1
    /\ aisReconnectTimers = 0
    /\ autoStartTimer = FALSE
    /\ activeFilters \in AreaFilters
    /\ filterTimeout = NoHandle
    /\ timeouts = {}
    /\ mapMoveTimeout = NoHandle
    /\ lastBounds = Null
    /\ InitWs
    /\ InitSidebar
    /\ admissions = 0

NextArea ==
    \/ QuickRegion
    \/ AreaResponse

SpecArea == InitArea /\ [][NextArea]_vars

----------------------------------------------------------------------------
(* SpecFeed: the AIS socket while the display stays in all-vessels mode.  A
   timeout that is due fires, and a socket that close() has put in CLOSING
   gets its 'close' event. *)

CloseCompletes ==
    \E i \in DOMAIN sockets :
        /\ sockets[i].readyState = "CLOSING"
        /\ Do(onclose(S, i))

NextFeed ==
    \/ AutoStart
    \/ BboxResponse
    \/ SocketOpens
    \/ SocketErrors
    \/ SocketCloses
    \/ ConnectionTimeout
    \/ ReconnectTimeout

SpecFeed ==
    /\ InitConn
    /\ [][NextFeed]_vars
    /\ WF_vars(AutoStart)
    /\ WF_vars(ReconnectTimeout)
    /\ WF_vars(CloseCompletes)

----------------------------------------------------------------------------
(* SpecRefresh: the stream of one run of the AIS socket after another, the
   updates admitted since the socket opened being counted *)

StreamAdmission ==
    /\ aisWebSocket # NoSocket
    /\ sockets[aisWebSocket].readyState = "OPEN"
    /\ \E vessel \in VesselRecords :
            /\ admits(S, vessel)
            /\ Do([onmessage(S, vessel) EXCEPT !.admissions = @ + 1])

NextRefresh ==
    \/ StreamAdmission
    \/ SocketCloses
    \/ ReconnectTimeout
    \/ SocketOpens

SpecRefresh == Init /\ [][NextRefresh]_vars

----------------------------------------------------------------------------
(* SpecList: the sidebar list while time passes, from the loading of the page
   on, with no filter or one filter selected *)

Tick == Do([S EXCEPT !.now = @ + TickMs])

InitList ==
    /\ myVessels = EmptyMap
    /\ aisVessels = EmptyMap
    /\ allVessels = EmptyMap
    /\ showAllVessels = TRUE
    /\ currentViewportBounds = Null
    /\ authToken \in BOOLEAN
    /\ pending = {}
    /\ sockets = <<[readyState |-> "OPEN", connectionTimeout |-> FALSE]>>
    /\ aisWebSocket = 1
    /\ aisReconnectTimers = 0
    /\ autoStartTimer = FALSE
    /\ activeFilters \in {{}, {"tanker"}}
    /\ filterTimeout = NoHandle
    /\ timeouts = {}
    /\ mapMoveTimeout = NoHandle
    /\ lastBounds = Null
    /\ InitWs
    /\ now = Epoch
    /\ lastListUpdateTime = 0
    /\ admissions = 0

NextList ==
    \/ Tick
    \/ StreamMessage
    \/ ToggleVesselSource

SpecList == InitList /\ [][NextList]_vars

----------------------------------------------------------------------------
(* SpecDebounce: 'moveend' events and clicks on two filter chips while time
   passes; a timeout runs when it is due, and no sooner *)

DebounceChips == {"moving", "tanker"}

MoveEnd == Do(handleMapMove(S))

MapMoveTimeout ==
    \E t \in Pending(S, "handleMapMove") :
        /\ t.due <= now
        /\ \E b \in ViewRects : Do(mapMoveTimeoutFires(S, t.id, b))

ToggleChip == \E filterType \in DebounceChips : Do(toggleFilter(S, filterType))

FilterTimeoutDue ==
    \E t \in Pending(S, "applyFilters") :
        /\ t.due <= now
        /\ Do(filterTimeoutFires(S, t.id))

\* /api/vessels/bbox fails, or knows of no vessel in the rectangle
EmptyResponse ==
    \E req \in pending :
        /\ req.op = "bbox"
        /\ \E ok \in BOOLEAN : Do(searchInBoundingBoxResponse(S, req, ok, << >>))

\* time passes, but not past the moment a timeout is due
Pass ==
    /\ now + DebounceTickMs <= DebounceEnd
    /\ \A t \in timeouts : now + DebounceTickMs <= t.due
    /\ Do([S EXCEPT !.now = @ + DebounceTickMs])

NextDebounce ==
    \/ MoveEnd
    \/ MapMoveTimeout
    \/ ToggleChip
    \/ FilterTimeoutDue
    \/ EmptyResponse
    \/ Pass

SpecDebounce == Init /\ [][NextDebounce]_vars

----------------------------------------------------------------------------
(* SpecSession: signing in and out around the tracked vessels.  The page
   starts signed out; login, once /api/auth/login has answered, holds the
   token and asks for the tracked vessels. *)

\* login after its answers: the token is held, then loadMyVesselsFromDatabase
login(s) == loadMyVesselsFromDatabase([s EXCEPT !.authToken = TRUE])

logout(s) == [s EXCEPT !.authToken = FALSE]

Login ==
    /\ ~authToken
    /\ ~InFlight(S, "load")
    /\ Do(login(S))

Logout ==
    /\ authToken
    /\ Do(logout(S))

InitSession ==
    /\ Init
    /\ authToken = FALSE

NextSession ==
    \/ Login
    \/ Logout
    \/ LoadMyVessels
    \/ LoadResponse
    \/ StreamMessage
    \/ AddVessel
    \/ TrackResponse
    \/ RemoveVessel
    \/ UntrackResponse

SpecSession == InitSession /\ [][NextSession]_vars

----------------------------------------------------------------------------
(* Properties *)

\* the Map m has an entry for the MMSI n, its key a string or a number
HasMmsi(m, n) == n \in Denoted(m)
\* no two entries of m denote the same MMSI
UniqueMmsis(m) == Cardinality(Denoted(m)) = MapSize(m)
\* the MMSIs of the fusion of s.myVessels and s.aisVessels under the display mode
FusionMmsis(s) ==
    IF s.showAllVessels THEN Denoted(s.myVessels) \cup Denoted(s.aisVessels)
    ELSE Denoted(s.myVessels)
Fused(s) == Denoted(s.allVessels) = FusionMmsis(s)
\* the last record of vessels that carries the key
LastOf(vessels, key) ==
    vessels[CHOOSE i \in DOMAIN vessels :
                /\ vessels[i].mmsi = key
                /\ \A j \in DOMAIN vessels : vessels[j].mmsi = key => j <= i]
\* after is before with the records of admitted set, the last of a key winning,
\* and every other entry as it was
Admitted(before, after, admitted) ==
    /\ UniqueMmsis(after)
    /\ MapKeys(after) = MapKeys(before) \cup {v.mmsi : v \in Range(admitted)}
    /\ \A key \in MapKeys(after) :
        IF \E v \in Range(admitted) : v.mmsi = key
        THEN MapGet(after, key) = LastOf(admitted, key)
        ELSE MapGet(after, key) = MapGet(before, key)

\* C1: updateViewportBounds(B), B not null, leaves in aisVessels every entry
\* that lies outside B and whose MMSI is a key of myVessels.
EvictionSparesTracked ==
    \A b \in ViewRects : \A i \in DOMAIN aisVessels :
        (MapHas(myVessels, aisVessels[i].k) /\ ~isWithinBounds(aisVessels[i].v, b))
            => MapHas(updateViewportBounds(S, b).aisVessels, aisVessels[i].k)

\* C2: after updateViewportBounds(B) on a non-empty aisVessels, B not null, no
\* entry that is untracked and outside B remains, and aisVessels is smaller by
\* exactly the number of those entries.
EvictionOfUntracked ==
    \A b \in ViewRects :
        aisVessels # EmptyMap =>
            LET t == updateViewportBounds(S, b)
                such == {i \in DOMAIN aisVessels :
                            /\ ~MapHas(myVessels, aisVessels[i].k)
                            /\ ~isWithinBounds(aisVessels[i].v, b)}
            IN  /\ \A i \in such : ~MapHas(t.aisVessels, aisVessels[i].k)
                /\ MapSize(t.aisVessels) = MapSize(aisVessels) - Cardinality(such)

\* C3: in every state a handler leaves, the MMSIs of allVessels are those of
\* myVessels and aisVessels when showAllVessels is true, and those of myVessels
\* when it is false.
DisplaySetIsFusion == Fused(S)

\* C4: when addVesselByMMSI, confirmRemoveVessel, clearAllVessels or
\* loadMyVesselsFromDatabase has changed myVessels, allVessels is the fusion of
\* myVessels and aisVessels under the display mode; a vessel untracked in
\* all-vessels mode that aisVessels still holds is still in allVessels.
TrackedMutationRecomputes ==
    /\ \A n \in Mmsis :
        LET t == addVesselByMMSI(S, Str(n)) IN t.myVessels # myVessels => Fused(t)
    /\ \A req \in pending : \A id \in Ids :
        req.op = "track" => Fused(addVesselByMMSIResponse(S, req, TRUE, id))
    /\ \A n \in Denoted(myVessels) :
        LET t == confirmRemoveVessel(S, Str(n)) IN t.myVessels # myVessels => Fused(t)
    /\ \A req \in pending :
        req.op = "untrack" => Fused(confirmRemoveVesselResponse(S, req, TRUE, FALSE))
    /\ LET t == clearAllVessels(S) IN t.myVessels # myVessels => Fused(t)
    /\ \A req \in pending :
        req.op = "clear" => Fused(clearAllVesselsResponse(S, req, FALSE))
    /\ \A rows \in RowResponses :
        authToken => Fused(loadMyVesselsFromDatabaseResponse(S, Request("load"), TRUE, rows))

\* C5: every key of myVessels is a key of myVessels and of allVessels after
\* updateViewportBounds(B), for null and non-null B and either display mode,
\* and after the whole of handleMapMove.
ViewportChangeKeepsTracked ==
    \A key \in MapKeys(myVessels) :
        /\ \A b \in ViewRects \cup {Null} :
            LET t == updateViewportBounds(S, b)
            IN  MapHas(t.myVessels, key) /\ MapHas(t.allVessels, key)
        /\ \A b \in ViewRects :
            LET t == mapMoveTimeoutFires(handleMapMove(S), handleMapMove(S).mapMoveTimeout, b)
            IN  MapHas(t.myVessels, key) /\ MapHas(t.allVessels, key)

\* C5, its case: the viewport is known, a tracked vessel lies outside it, the
\* cache has lost the vessel, and allVessels shows it.
TrackedShownOutsideViewport ==
    /\ ~currentViewportBounds.null
    /\ \E i \in DOMAIN myVessels :
        /\ ~isWithinBounds(myVessels[i].v, currentViewportBounds)
        /\ ~HasMmsi(aisVessels, myVessels[i].k.n)
        /\ MapHas(allVessels, myVessels[i].k)

\* C6: a vessel_update is dropped, aisVessels, myVessels and allVessels staying
\* as they are, when the viewport is known, the MMSI is not tracked and the
\* position is outside; in every other case aisVessels holds the record under
\* its MMSI afterwards.
StreamAdmissionRule ==
    \A vessel \in VesselRecords :
        LET t == onmessage(S, vessel)
        IN  IF /\ ~currentViewportBounds.null
               /\ ~HasMmsi(myVessels, vessel.mmsi.n)
               /\ ~isWithinBounds(vessel, currentViewportBounds)
            THEN /\ t.aisVessels = aisVessels
                 /\ t.myVessels = myVessels
                 /\ t.allVessels = allVessels
            ELSE /\ MapHas(t.aisVessels, vessel.mmsi)
                 /\ MapGet(t.aisVessels, vessel.mmsi) = vessel

MmsiUniqueAcrossTypes == UniqueMmsis(myVessels) /\ UniqueMmsis(allVessels)

\* C9: after a vessel_update for an MMSI that myVessels holds, the record of
\* myVessels for it has the id and added_at it had and the position and speed
\* of the update.
MergeKeepsIdentityAdoptsTelemetry ==
    \A vessel \in VesselRecords : \A i \in DOMAIN myVessels :
        myVessels[i].k.n = vessel.mmsi.n =>
            LET t == onmessage(S, vessel)
                key == myVessels[i].k
            IN  /\ MapHas(t.myVessels, key)
                /\ MapGet(t.myVessels, key).id = myVessels[i].v.id
                /\ MapGet(t.myVessels, key).added_at = myVessels[i].v.added_at
                /\ MapGet(t.myVessels, key).latitude = vessel.latitude
                /\ MapGet(t.myVessels, key).longitude = vessel.longitude
                /\ MapGet(t.myVessels, key).speed = vessel.speed

\* the AIS WebSockets that are connecting or open
Live == {i \in DOMAIN sockets : sockets[i].readyState \in {"CONNECTING", "OPEN"}}

\* C10: at most one AIS WebSocket is CONNECTING or OPEN at any time, and
\* connectToAISStream creates no socket while one is.
AtMostOneConnection ==
    /\ Cardinality(Live) <= 1
    /\ Live # {} => connectToAISStream(S).sockets = sockets

\* C12: when showAllVessels is false as the 5 s reconnect timeout fires, the
\* timeout creates no AIS WebSocket.
NoReconnectOutsideAllVessels ==
    (~showAllVessels /\ aisReconnectTimers > 0) => reconnectTimeout(S).sockets = sockets

\* C13: the 10 s timeout of an AIS WebSocket closes that socket when it is still
\* CONNECTING, and changes no other socket that is OPEN or still within its own
\* 10 s.
ConnectionTimeoutClosesOwnSocket ==
    \A i \in DOMAIN sockets :
        sockets[i].connectionTimeout =>
            LET t == connectionTimeout(S, i)
            IN  /\ sockets[i].readyState = "CONNECTING"
                    => t.sockets[i].readyState = "CLOSING"
                /\ \A j \in DOMAIN sockets \ {i} :
                    (sockets[j].readyState = "OPEN" \/ sockets[j].connectionTimeout)
                        => t.sockets[j].readyState = sockets[j].readyState

\* C11: in all-vessels mode every close of an AIS WebSocket schedules a
\* reconnect timeout, the timeout creates a socket unless the current one is
\* OPEN, whatever the number of earlier attempts, and whenever no socket is
\* CONNECTING or OPEN one eventually is again.
FeedReconnects ==
    /\ [](\A i \in DOMAIN sockets :
            (showAllVessels /\ sockets[i].readyState # "CLOSED")
                => onclose(S, i).aisReconnectTimers = aisReconnectTimers + 1)
    /\ []((aisReconnectTimers > 0 /\ ~IsOpen(S))
            => LET t == reconnectTimeout(S)
               IN  /\ t.aisWebSocket \in DOMAIN t.sockets
                   /\ t.sockets[t.aisWebSocket] = NewSocket
                   /\ t.aisReconnectTimers = aisReconnectTimers - 1)
    /\ (Live = {}) ~> (Live # {})

\* C11, its case: every AIS WebSocket created so far has closed in all-vessels
\* mode and the reconnect timeout is pending.
ReconnectPending ==
    /\ showAllVessels
    /\ sockets # << >>
    /\ Live = {}
    /\ aisReconnectTimers > 0

\* the sockets of the secondary client that are connecting or open
WsLive == {i \in DOMAIN wsSockets : wsSockets[i].readyState \in {"CONNECTING", "OPEN"}}

\* the three stores of a state
Stores(s) == <<s.myVessels, s.aisVessels, s.allVessels>>

\* C14: a payload that is not valid JSON changes none of myVessels, aisVessels
\* and allVessels, closes no socket, and the messages after it are processed as
\* they would have been without it, on the AIS stream and on the secondary
\* client.
MalformedPayloadDropped ==
    /\ IsOpen(S) =>
        LET t == onmessageEvent(S, Malformed)
        IN  /\ Stores(t) = Stores(S)
            /\ t.sockets = sockets
            /\ t.aisWebSocket = aisWebSocket
            /\ \A later \in StreamPayloads :
                onmessageEvent(t, later) = onmessageEvent(S, later)
    /\ (\E i \in WsLive : wsSockets[i].readyState = "OPEN") =>
        LET t == wsOnmessage(S, Malformed)
        IN  /\ Stores(t) = Stores(S)
            /\ t.wsSockets = wsSockets
            /\ t.ws = ws
            /\ t.wsConnected = wsConnected
            /\ \A later \in StreamPayloads :
                wsOnmessage(t, later) = wsOnmessage(S, later)

\* C14, its case: both sockets are open, the stores hold vessels, and an update
\* that follows a malformed payload still changes the Live Cache.
UpdateAfterMalformedApplies ==
    /\ IsOpen(S)
    /\ \E i \in WsLive : wsSockets[i].readyState = "OPEN"
    /\ myVessels # << >>
    /\ aisVessels # << >>
    /\ \E later \in StreamPayloads :
        onmessageEvent(onmessageEvent(S, Malformed), later).aisVessels # aisVessels

\* C15: a well-formed message of a type other than "vessel_update", or a
\* "vessel_update" without data, changes none of myVessels, aisVessels and
\* allVessels, on the AIS stream and on the secondary client.
UnrecognizedMessageIgnored ==
    \A payload \in StreamPayloads :
        (payload.json /\ (payload.type # "vessel_update" \/ payload.data = << >>))
            => /\ IsOpen(S) => Stores(onmessageEvent(S, payload)) = Stores(S)
               /\ Stores(wsOnmessage(S, payload)) = Stores(S)

\* C15, its case: a vessel that would change the stores as a "vessel_update"
\* arrives as the data of a message of another type.
OtherTypeCarriesNewVessel ==
    /\ IsOpen(S)
    /\ myVessels # << >>
    /\ \E v \in VesselRecords :
        /\ Stores(onmessageEvent(S, Message("vessel_update", <<v>>))) # Stores(S)
        /\ Stores(onmessageEvent(S, Message("connection", <<v>>))) = Stores(S)

\* C16: a close of a socket of the secondary client schedules one reconnect
\* timeout and counts it while fewer than 5 have been counted since the last
\* open; the count never exceeds 5; the close that follows the 5th attempt
\* schedules nothing and reports the failure, after which no socket of the
\* client is CONNECTING or OPEN and no timeout is pending.
BoundedReconnect ==
    /\ reconnectAttempts \in 0..MAX_RECONNECT_ATTEMPTS
    /\ wsReconnectTimers > 0 => reconnectAttempts > 0
    /\ \A i \in WsLive :
        LET t == wsOnclose(S, i)
        IN  /\ reconnectAttempts < MAX_RECONNECT_ATTEMPTS
                => /\ t.wsReconnectTimers = wsReconnectTimers + 1
                   /\ t.reconnectAttempts = reconnectAttempts + 1
                   /\ t.wsTerminal = wsTerminal
            /\ reconnectAttempts = MAX_RECONNECT_ATTEMPTS
                => /\ t.wsReconnectTimers = wsReconnectTimers
                   /\ t.wsSockets = [wsSockets EXCEPT ![i].readyState = "CLOSED"]
                   /\ t.wsTerminal
    /\ \A i \in WsLive :
        wsSockets[i].readyState = "CONNECTING" => wsOnopen(S, i).reconnectAttempts = 0
    /\ wsTerminal
        => /\ reconnectAttempts = MAX_RECONNECT_ATTEMPTS
           /\ WsLive = {}
           /\ wsReconnectTimers = 0
           /\ ~ENABLED (WsReconnectTimeout \/ WsPageLoad)

\* C16, its case: the socket of the 5th reconnect attempt has closed.
ReconnectGivenUp ==
    /\ wsTerminal
    /\ reconnectAttempts = MAX_RECONNECT_ATTEMPTS
    /\ wsSockets # << >>

\* C17: at most one socket of the secondary client is CONNECTING or OPEN, and
\* whenever a call of connectWebSocket is due, at page load or from a pending
\* reconnect timeout, none is.
WsNeverDoubleConnects ==
    /\ Cardinality(WsLive) <= 1
    /\ wsReconnectTimers > 0 => WsLive = {}
    /\ ws = NoSocket => wsSockets = << >> /\ wsReconnectTimers = 0
    /\ (ENABLED WsPageLoad \/ ENABLED WsReconnectTimeout) => WsLive = {}

\* C17, its case: a reconnect timeout has fired after a close and its socket is
\* CONNECTING or OPEN.
WsReconnected ==
    /\ reconnectAttempts > 0
    /\ wsReconnectTimers = 0
    /\ WsLive # {}

\* C18: with all four status filters on, applyFilters and filterByActiveFilters
\* give what they give with no status filter on and the same type filters;
\* with all four type filters on, what they give with no type filter on and
\* the same status filters.
FullSelectionIsNoSelection ==
    LET without(filters) == [S EXCEPT !.activeFilters = @ \ filters]
        shown == MapValues(allVessels)
    IN  /\ StatusFilters \subseteq activeFilters
            => /\ applyFilters(S) = applyFilters(without(StatusFilters))
               /\ filterByActiveFilters(S, shown)
                    = filterByActiveFilters(without(StatusFilters), shown)
        /\ TypeFilters \subseteq activeFilters
            => /\ applyFilters(S) = applyFilters(without(TypeFilters))
               /\ filterByActiveFilters(S, shown)
                    = filterByActiveFilters(without(TypeFilters), shown)

\* C18, its case: all four status filters are on with some type filter,
\* applyFilters has run, and a single status filter would have hidden a vessel
\* that is shown.
AllStatusesSelected ==
    /\ StatusFilters \subseteq activeFilters
    /\ activeFilters \cap TypeFilters # {}
    /\ Pending(S, "applyFilters") = {}
    /\ applyFilters(S) # << >>
    /\ \E filter \in StatusFilters :
        applyFilters([S EXCEPT !.activeFilters = (@ \ StatusFilters) \cup {filter}])
            # applyFilters(S)

\* the statuses of a record: moving when it is none of ballast, anchored and
\* stationary
StatusesOf(vessel) ==
    {status \in StatusFilters :
        CASE status = "ballast" -> vessel.is_ballast
          [] status = "anchored" -> vessel.is_anchored
          [] status = "stationary" -> vessel.is_stationary
          [] OTHER -> ~(vessel.is_ballast \/ vessel.is_anchored \/ vessel.is_stationary)}

\* the type filter that names a category
TypeFilterOf(category) ==
    CASE category = "Tanker" -> "tanker"
      [] category = "Container" -> "container"
      [] category = "Cargo" -> "cargo"
      [] OTHER -> "other"

\* C19: a record is among the vessels applyFilters shows iff it has one of the
\* selected statuses when some but not all statuses are selected, and its
\* category is one of the selected types when some but not all types are
\* selected; filterByActiveFilters keeps the same records.
FilterSemantics ==
    LET statuses == activeFilters \cap StatusFilters
        types == activeFilters \cap TypeFilters
        shown == MapValues(allVessels)
        passes(v) ==
            /\ statuses \notin {{}, StatusFilters} => StatusesOf(v) \cap statuses # {}
            /\ types \notin {{}, TypeFilters} => TypeFilterOf(getVesselCategory(v)) \in types
    IN  /\ applyFilters(S) = SelectSeq(shown, passes)
        /\ filterByActiveFilters(S, shown) = applyFilters(S)

\* C19, its case: some statuses and some types are selected, applyFilters has
\* run, and of two vessels one is shown and one is hidden.
PartialSelectionHidesOne ==
    /\ activeFilters \cap StatusFilters \notin {{}, StatusFilters}
    /\ activeFilters \cap TypeFilters \notin {{}, TypeFilters}
    /\ Pending(S, "applyFilters") = {}
    /\ Len(allVessels) > Len(applyFilters(S))
    /\ applyFilters(S) # << >>

\* C20: dedupeVesselsByMmsi returns, in their order, the records of its input
\* that no earlier record shares the MMSI of, and returns its own result
\* unchanged; here for the vessels of the Live Cache inside each search area.
DedupeKeepsFirst ==
    \A rect \in ViewRects :
        LET vessels == SelectSeq(MapValues(aisVessels), LAMBDA v : InRect(v, rect))
            unique == dedupeVesselsByMmsi(vessels)
            Same(a, b) == a.mmsi # NoMmsi /\ b.mmsi # NoMmsi /\ a.mmsi.n = b.mmsi.n
            IndexOf(v) == CHOOSE i \in DOMAIN vessels : vessels[i] = v
            IsFirst(v) == \A j \in 1..(IndexOf(v) - 1) : ~Same(vessels[j], v)
        IN  /\ unique = SelectSeq(vessels, IsFirst)
            /\ dedupeVesselsByMmsi(unique) = unique

\* C20, its case: a search has run over a Live Cache of three records, the first
\* two with one MMSI, and the first and the third are what dedupeVesselsByMmsi
\* returns.
DuplicateDropped ==
    /\ Len(aisVessels) = MaxCached
    /\ allVessels = aisVessels
    /\ aisVessels[1].k # NoMmsi
    /\ aisVessels[1].k.n = aisVessels[2].k.n
    /\ aisVessels[1].k.n # aisVessels[3].k.n
    /\ dedupeVesselsByMmsi(MapValues(aisVessels)) = <<aisVessels[1].v, aisVessels[3].v>>

RemoteResultsAdmitted ==
    \A req \in pending :
        req.op = "bbox" =>
            \A vessels \in AreaResponses(req.rect) :
                LET t == searchInBoundingBoxResponse(S, req, TRUE, vessels)
                IN  \A i \in DOMAIN vessels :
                        \E e \in Range(t.aisVessels) : e.k.n = vessels[i].mmsi.n

\* C23: for an all-digit term that is the MMSI of a record of myVessels and of
\* a record of aisVessels, searchVessels finds the record of myVessels.
LookupPrefersTracked ==
    \A searchTerm \in SearchTerms :
        \A i \in DOMAIN myVessels :
            (/\ myVessels[i].k.n = searchTerm.n
             /\ \E j \in DOMAIN aisVessels : aisVessels[j].k.n = searchTerm.n)
                => searchVessels(S, searchTerm) = <<myVessels[i].v>>

\* C24: a rejected or failed request of addVesselByMMSI, of confirmRemoveVessel
\* or of a bounding-box search leaves myVessels, aisVessels and allVessels as
\* they are and sends no request, but for the delete by id that follows a
\* rejected delete by MMSI of a vessel that has an id.
FailedRequestChangesNothing ==
    \A req \in pending :
        LET Quiet(t) == Stores(t) = Stores(S) /\ t.pending = pending \ {req}
        IN  /\ req.op = "track" => Quiet(addVesselByMMSIResponse(S, req, FALSE, Undefined))
            /\ req.op = "bbox" => Quiet(searchInBoundingBoxResponse(S, req, FALSE, << >>))
            /\ req.op = "bboxForm" => Quiet(filterByBboxResponse(S, req, FALSE, << >>))
            /\ req.op = "untrack"
                => /\ \A ok \in BOOLEAN : Quiet(confirmRemoveVesselResponse(S, req, ok, TRUE))
                   /\ LET t == confirmRemoveVesselResponse(S, req, FALSE, FALSE)
                      IN  IF ~req.fallback /\ req.id # Undefined
                          THEN /\ Stores(t) = Stores(S)
                               /\ t.pending = (pending \ {req}) \cup {[req EXCEPT !.fallback = TRUE]}
                          ELSE Quiet(t)

\* C24, its case: the delete by MMSI of a tracked vessel was rejected and the
\* delete by id is awaiting its answer, with vessels in all three stores.
FallbackDeleteInFlight ==
    /\ \E req \in pending : req.op = "untrack" /\ req.fallback
    /\ myVessels # << >>
    /\ aisVessels # << >>
    /\ allVessels # << >>

\* C25: when clearAllVessels has asked the backend to delete the tracked
\* vessels and a delete failed, a tracked vessel is still in myVessels and in
\* allVessels afterwards.
FailedBulkDeleteKeepsVessel ==
    \A req \in pending :
        (req.op = "clear" /\ myVessels # << >>)
            => LET t == clearAllVesselsResponse(S, req, TRUE)
               IN  \E key \in MapKeys(myVessels) :
                    MapHas(t.myVessels, key) /\ MapHas(t.allVessels, key)

\* stream records whose latitude or longitude is missing or not a number
InvalidRecords ==
    {[mmsi |-> m, latitude |-> p[1], longitude |-> p[2], speed |-> sp,
      id |-> Undefined, added_at |-> Undefined] :
        m \in TypedMmsis, p \in {<<NaN, 0>>, <<0, NaN>>, <<NaN, NaN>>}, sp \in Speeds}

\* the rectangles of the form with a field that is not a number or with a
\* minimum above its maximum
InvalidRects == {Rect(NaN, 1, 0, 1), Rect(0, 1, 0, NaN), Rect(1, 0, 0, 1), Rect(0, 1, 1, 0)}

\* C26: a stream record whose latitude or longitude is missing or not a number
\* changes neither aisVessels nor myVessels, tracked or not, viewport known or
\* not; filterByBbox with such a coordinate, or a minimum above its maximum,
\* changes nothing and sends no request.
InvalidInputRejected ==
    /\ \A vessel \in InvalidRecords :
        LET t == onmessage(S, vessel)
        IN  t.aisVessels = aisVessels /\ t.myVessels = myVessels
    /\ \A rect \in InvalidRects : filterByBbox(S, rect) = S

\* C27: while showAllVessels is false, neither the 10 s timeout nor the 'error'
\* event of an AIS WebSocket shows an error toast; while it is true, the
\* 'error' event shows one.
TransportToastsOnlyInAllVessels ==
    \A i \in DOMAIN sockets :
        /\ (~showAllVessels /\ sockets[i].connectionTimeout)
            => connectionTimeoutToasts(S, i) = 0
        /\ (~showAllVessels /\ sockets[i].readyState # "CLOSED") => onerrorToasts(S, i) = 0
        /\ (showAllVessels /\ sockets[i].readyState # "CLOSED") => onerrorToasts(S, i) = 1

\* C28: counting the stream updates admitted since the AIS socket last opened,
\* an update of an untracked vessel in all-vessels mode refreshes the map
\* exactly when it is one of the first 20 or a 10th one
RefreshRateByAdmissions ==
    \A vessel \in VesselRecords :
        (showAllVessels /\ admits(S, vessel) /\ ~MapHas(myVessels, vessel.mmsi)) =>
            (refreshesMap(S, vessel) <=>
                \/ admissions + 1 <= FirstBatch
                \/ (admissions + 1) % EveryNth = 0)

\* C29: an admitted stream update of a vessel whose MMSI is in the Tracked
\* Store rebuilds the display and refreshes the map, in both modes; in
\* tracked-only mode the rebuilt display holds tracked MMSIs only, among them
\* the vessel at its new position; an admitted update of an untracked vessel
\* in tracked-only mode leaves the display unchanged.
TrackedUpdateRefreshes ==
    \A vessel \in VesselRecords :
        LET t == onmessage(S, vessel)
        IN  admits(S, vessel) =>
                /\ vessel.mmsi.n \in Denoted(myVessels) =>
                        /\ refreshesMap(S, vessel)
                        /\ ~showAllVessels =>
                                /\ Denoted(t.allVessels) \subseteq Denoted(t.myVessels)
                                /\ \E i \in DOMAIN t.allVessels :
                                        /\ t.allVessels[i].k.n = vessel.mmsi.n
                                        /\ t.allVessels[i].v.latitude = vessel.latitude
                                        /\ t.allVessels[i].v.longitude = vessel.longitude
                /\ (vessel.mmsi.n \notin Denoted(myVessels) /\ ~showAllVessels) =>
                        t.allVessels = allVessels

\* the same of the updates whose mmsi is, type included, a key of myVessels:
\* this holds
TrackedKeyUpdateRefreshes ==
    \A vessel \in VesselRecords :
        LET t == onmessage(S, vessel)
        IN  admits(S, vessel) =>
                /\ MapHas(myVessels, vessel.mmsi) =>
                        /\ refreshesMap(S, vessel)
                        /\ ~showAllVessels =>
                                /\ MapKeys(t.allVessels) = MapKeys(t.myVessels)
                                /\ MapGet(t.allVessels, vessel.mmsi).latitude = vessel.latitude
                                /\ MapGet(t.allVessels, vessel.mmsi).longitude = vessel.longitude
                /\ (vessel.mmsi.n \notin Denoted(myVessels) /\ ~showAllVessels) =>
                        t.allVessels = allVessels

SingleDebounceHandle ==
    /\ Cardinality(Pending(S, "handleMapMove")) <= 1
    /\ Cardinality(Pending(S, "applyFilters")) <= 1
    /\ \A t \in Pending(S, "handleMapMove") : t.id = mapMoveTimeout
    /\ \A t \in Pending(S, "applyFilters") : t.id = filterTimeout
    /\ LET s1 == handleMapMove(S)
       IN  Pending(s1, "handleMapMove") =
               {[fn |-> "handleMapMove", id |-> s1.mapMoveTimeout, due |-> now + 500]}
    /\ \A filterType \in DebounceChips :
           LET s1 == toggleFilter(S, filterType)
           IN  Pending(s1, "applyFilters") =
                   {[fn |-> "applyFilters", id |-> s1.filterTimeout, due |-> now + 150]}

\* C31, its case: a timeout of handleMapMove and one of toggleFilter are pending,
\* each set some time ago and not yet due, so that the next event replaces it
DebouncesMidway ==
    /\ \E t \in Pending(S, "handleMapMove") : now < t.due /\ t.due < now + 500
    /\ \E t \in Pending(S, "applyFilters") : now < t.due /\ t.due < now + 150

\* C32: each client has at most one reconnect timeout pending, also after one
\* more 'close' event; and once toggleVesselSource, or the answer to a
\* bounding-box search, has called connectToAISStream and a socket has been
\* created, no reconnect timeout of the AIS client is pending.
SingleReconnectTimer ==
    /\ aisReconnectTimers <= 1
    /\ wsReconnectTimers <= 1
    /\ \A i \in DOMAIN sockets :
           sockets[i].readyState # "CLOSED" => onclose(S, i).aisReconnectTimers <= 1
    /\ \A view \in ViewRects :
           (~showAllVessels /\ ~IsOpen(S)) =>
               toggleVesselSource(S, view).aisReconnectTimers = 0
    /\ ~IsOpen(S) => ensureAllVesselsMode(S).aisReconnectTimers = 0

\* the larger of the moves of the two edges of one axis
EdgeMove(minNow, maxNow, minLast, maxLast) ==
    IF Abs(minNow - minLast) > Abs(maxNow - maxLast)
    THEN Abs(minNow - minLast) ELSE Abs(maxNow - maxLast)

\* C33: when the timeout of handleMapMove runs with the map showing b, it
\* propagates b (lastBounds and currentViewportBounds become b) if nothing was
\* propagated before, or if in latitude or in longitude an edge has moved by
\* 20% or more of the span of b; if both axes moved by less, it changes
\* neither.
ViewportChangePropagated ==
    \A b \in ViewRects :
        LET s1 == handleMapMove(S)
            t == mapMoveTimeoutFires(s1, s1.mapMoveTimeout, b)
            latMove == EdgeMove(b.minLat, b.maxLat, lastBounds.minLat, lastBounds.maxLat)
            lonMove == EdgeMove(b.minLon, b.maxLon, lastBounds.minLon, lastBounds.maxLon)
            small == /\ 5 * latMove < b.maxLat - b.minLat
                     /\ 5 * lonMove < b.maxLon - b.minLon
        IN  IF lastBounds.null \/ ~small
            THEN t.lastBounds = b /\ t.currentViewportBounds = b
            ELSE /\ t.lastBounds = lastBounds
                 /\ t.currentViewportBounds = currentViewportBounds
                 /\ t.pending = pending

\* updateViewportBounds(bounds) leaves r in a Live Cache that holds it
NotEvicted(s, r, bounds) ==
    LET cached == [s EXCEPT !.aisVessels = MapSet(@, r.mmsi, r)]
    IN  MapHas(updateViewportBounds(cached, bounds).aisVessels, r.mmsi)

\* C34: for every rectangle B and record r, onmessage admits r while
\* currentViewportBounds is B exactly if updateViewportBounds(B) leaves r in the
\* Live Cache; a record on an edge of B is admitted and is not evicted.
AdmissionMatchesEviction ==
    \A b \in ViewRects : \A r \in VesselRecords :
        LET s1 == [S EXCEPT !.currentViewportBounds = b]
        IN  /\ admits(s1, r) <=> NotEvicted(s1, r, b)
            /\ (r.latitude \in {b.minLat, b.maxLat} /\ r.longitude \in {b.minLon, b.maxLon})
                    => admits(s1, r) /\ NotEvicted(s1, r, b)

\* the same of the records whose mmsi is no key of myVessels: this holds
UntrackedAdmissionMatchesEviction ==
    \A b \in ViewRects : \A r \in VesselRecords :
        LET s1 == [S EXCEPT !.currentViewportBounds = b]
        IN  ~MapHas(myVessels, r.mmsi) =>
                /\ admits(s1, r) <=> NotEvicted(s1, r, b)
                /\ (r.latitude \in {b.minLat, b.maxLat}
                        /\ r.longitude \in {b.minLon, b.maxLon})
                        => admits(s1, r) /\ NotEvicted(s1, r, b)

\* C35: the category of a displayed record is its ship_category when that is
\* Tanker, Container or Cargo; otherwise Tanker if ship_type, in lower case,
\* contains tanker, oil, lng or lpg, else Container if it contains container,
\* else Cargo if it contains cargo, bulk or general, else Other; and the
\* record passes exactly one of the four type filters.
CategoryDerivation ==
    \A i \in DOMAIN allVessels :
        LET vessel == allVessels[i].v
            words == toLowerCase(vessel.ship_type)
            category == getVesselCategory(vessel)
        IN  /\ vessel.ship_category \in {"Tanker", "Container", "Cargo"}
                => category = vessel.ship_category
            /\ vessel.ship_category \notin {"Tanker", "Container", "Cargo"} =>
                /\ category = "Tanker" <=> words \cap {"tanker", "oil", "lng", "lpg"} # {}
                /\ category = "Container" <=>
                        /\ words \cap {"tanker", "oil", "lng", "lpg"} = {}
                        /\ "container" \in words
                /\ category = "Cargo" <=>
                        /\ words \cap {"tanker", "oil", "lng", "lpg", "container"} = {}
                        /\ words \cap {"cargo", "bulk", "general"} # {}
            /\ category \in {"Tanker", "Container", "Cargo", "Other"}
            /\ Cardinality({filter \in TypeFilters :
                               passesApplyFilters(vessel, {filter})}) = 1

\* C35, its case: applyFilters has run with the container filter alone and
\* shows a vessel that the backend calls Passenger and whose ship_type names,
\* in upper and lower case, both a container and cargo
ContainerByShipType ==
    /\ activeFilters = {"container"}
    /\ Pending(S, "applyFilters") = {}
    /\ \E i \in DOMAIN applyFilters(S) :
           /\ applyFilters(S)[i].ship_category = "Passenger"
           /\ applyFilters(S)[i].ship_type = {"Container", "cargo"}

\* C36: in all-vessels mode, after onmessage has admitted an update of a vessel
\* that myVessels holds with an id, the record allVessels holds for its mmsi
\* has the id and the added_at of the tracked record.
IdentitySurvivesFusion ==
    \A vessel \in VesselRecords :
        (/\ showAllVessels
         /\ admits(S, vessel)
         /\ MapHas(myVessels, vessel.mmsi)
         /\ MapGet(myVessels, vessel.mmsi).id # Undefined) =>
            LET t == onmessage(S, vessel)
                shown == MapGet(t.allVessels, vessel.mmsi)
            IN  /\ shown.id = MapGet(myVessels, vessel.mmsi).id
                /\ shown.added_at = MapGet(myVessels, vessel.mmsi).added_at

\* C37: the rebuild of allVessels, in either mode, changes neither myVessels
\* nor aisVessels, and a second rebuild right after it yields the same
\* allVessels; toggleVesselSource and refreshMapWithFilters change neither
\* store.
FusionPurity ==
    /\ \A mode \in BOOLEAN :
           LET t == Rebuild([S EXCEPT !.showAllVessels = mode])
           IN  /\ t.myVessels = myVessels
               /\ t.aisVessels = aisVessels
               /\ Rebuild(t).allVessels = t.allVessels
               /\ Rebuild(t).myVessels = myVessels
               /\ Rebuild(t).aisVessels = aisVessels
    /\ \A view \in ViewRects :
           LET t == toggleVesselSource(S, view)
           IN  t.myVessels = myVessels /\ t.aisVessels = aisVessels
    /\ refreshMapWithFilters(S).myVessels = myVessels
    /\ refreshMapWithFilters(S).aisVessels = aisVessels
    /\ refreshMapWithFilters(S).allVessels = allVessels

\* C37, its case: allVessels has been rebuilt in all-vessels mode from two
\* stores that hold different records of one vessel
FusedFromBothStores ==
    /\ showAllVessels
    /\ allVessels = MapSpread(myVessels, aisVessels)
    /\ \E i \in DOMAIN myVessels :
           /\ MapHas(aisVessels, myVessels[i].k)
           /\ MapGet(aisVessels, myVessels[i].k) # myVessels[i].v

\* C38: while currentViewportBounds is known, every entry of aisVessels whose
\* MMSI myVessels does not hold lies within currentViewportBounds.
CacheWithinViewport ==
    ~currentViewportBounds.null =>
        \A i \in DOMAIN aisVessels :
            aisVessels[i].k.n \notin Denoted(myVessels) =>
                isWithinBounds(aisVessels[i].v, currentViewportBounds)

\* C39: in tracked-only mode a map move, with its silent search of the view,
\* and the answer to a bounding-box search leave showAllVessels false and
\* allVessels equal to myVessels.
ModeChangesOnlyByToggle ==
    (~showAllVessels /\ allVessels = myVessels) =>
        /\ \A b \in ViewRects :
               LET s1 == handleMapMove(S)
                   t == mapMoveTimeoutFires(s1, s1.mapMoveTimeout, b)
               IN  ~t.showAllVessels /\ t.allVessels = t.myVessels
        /\ \A req \in pending :
               req.op = "bbox" =>
                   \A vessels \in BboxResponses(req.rect) :
                       LET t == searchInBoundingBoxResponse(S, req, TRUE, vessels)
                       IN  ~t.showAllVessels /\ t.allVessels = t.myVessels

\* C40: when loadMyVesselsFromDatabase completes successfully the MMSIs of
\* myVessels are those of the rows in the answer, and after logout myVessels
\* holds no vessel.
TrackedStoreMirrorsBackend ==
    /\ \A req \in pending :
           req.op = "load" =>
               \A rows \in RowResponses :
                   Denoted(loadMyVesselsFromDatabaseResponse(S, req, TRUE, rows).myVessels)
                       = {rows[i].mmsi.n : i \in DOMAIN rows}
    /\ authToken => Denoted(logout(S).myVessels) = {}

====
